------------------------- MODULE NotificationProofs -------------------------
(***************************************************************************)
(* Proofs about the tokens that apps hold: those they get their            *)
(* notifications by, for any users, phones, jobs, installations and        *)
(* restarts; and, in the second half, those they are signed in by, for any *)
(* users, apps, calls, lost answers and tables to start from.              *)
(***************************************************************************)
EXTENDS MCNotification, MCAccount, FiniteSetTheorems, WellFoundedInduction, TLAPS

Token == 1 .. lastId
Registration ==
    {Idle} \cup [step : {"take", "read", "write"}, user : Users, token : Token, id : 0 .. lastId]
Job == [user : Users, channel : Channels, step : {"queued", "send", "prune", "log"},
        left : SUBSET Token, dead : SUBSET Token]

(* Rows, apps and jobs know no token that was not given out yet. *)
TypeOK ==
    /\ lastId \in Nat
    /\ app \in [Devices -> [user : Users \cup {Nobody}, token : Token]]
    /\ DOMAIN row \subseteq 1 .. lastId
    /\ row \in [DOMAIN row -> [user : Users, token : Token]]
    /\ call \in [Handlers -> Registration]
    /\ job \in [DOMAIN job -> Job]

(* Once the rows of other accounts are gone none comes back, as only this  *)
(* account registers the token; and the row it has read is still of its    *)
(* user.                                                                   *)
Registers(h) ==
    /\ call[h].step \in {"read", "write"} /\ call[h].token \notin mixed =>
          \A i \in DOMAIN row : row[i].token = call[h].token => row[i].user = call[h].user
    /\ call[h].step = "write" /\ call[h].id \in DOMAIN row =>
          row[call[h].id].user = call[h].user

MixedAreMixed == \A h \in Handlers : call[h] # Idle /\ Disputed(h) => call[h].token \in mixed

DeadAreGone == \A j \in DOMAIN job : \A t \in job[j].dead : ~Installed(t)

TokenInv ==
    /\ TypeOK
    /\ OneAccountPerDevice
    /\ DeadAreGone
    /\ MixedAreMixed
    /\ \A h \in Handlers : Registers(h)

LEMMA InitialInv == MCInit => TokenInv
BY NotificationAssumption
   DEF MCInit, Init, TokenInv, TypeOK, OneAccountPerDevice, DeadAreGone, MixedAreMixed, Registers,
       Registration, Job, Token, Idle

-----------------------------------------------------------------------------
(* Registering a token *)

(* A registration of the type above is idle exactly at the step "idle".    *)
LEMMA IdleStep ==
    ASSUME TypeOK
    PROVE  \A h \in Handlers : /\ call[h] = Idle <=> call[h].step = "idle"
                               /\ call[h] # Idle => call[h] \in [step : {"take", "read", "write"}, user : Users,
                                                                 token : Token, id : 0 .. lastId]
BY DEF TypeOK, Registration, Idle

LEMMA MixedStays == Mixed /\ UNCHANGED call => UNCHANGED mixed
BY DEF Mixed, Starts, Takes

LEMMA SignInStep ==
    ASSUME TokenInv, NEW h \in Handlers, NEW d \in Devices, NEW u \in Users, SignIn(h, d, u), Mixed
    PROVE  TokenInv'
<1> DEFINE x == [step |-> "take", user |-> u, token |-> app[d].token, id |-> 0]
<1>1. x \in Registration /\ x # Idle /\ app[d] \in [user : Users \cup {Nobody}, token : Token]
    BY DEF TokenInv, TypeOK, Registration, Token, Idle
<1>2. /\ app' \in [Devices -> [user : Users \cup {Nobody}, token : Token]]
      /\ \A e \in Devices : app'[e].token = app[e].token
    <2>1. [app[d] EXCEPT !.user = u] = [user |-> u, token |-> app[d].token]
        BY <1>1
    <2>2. app' = [app EXCEPT ![d] = [user |-> u, token |-> app[d].token]]
        BY <2>1 DEF SignIn
    <2>. QED
        BY <1>1, <2>2 DEF TokenInv, TypeOK
<1>3. /\ call[h] = Idle
      /\ call' = [call EXCEPT ![h] = x]
      /\ UNCHANGED <<row, job, lastId>>
    BY DEF SignIn, Goes
<1>4. /\ call'[h] = x /\ call' \in [Handlers -> Registration]
      /\ \A k \in Handlers \ {h} : call'[k] = call[k]
    BY <1>1, <1>3 DEF TokenInv, TypeOK
<1>. HIDE DEF x
<1>5. TypeOK'
    BY <1>2, <1>3, <1>4 DEF TokenInv, TypeOK, Registration, Job, Token
<1>6. ~Takes(h) /\ \A k \in Handlers : ~Takes(k)
    BY <1>3, <1>4 DEF Takes, Idle
<1>7. mixed' = mixed \cup {call'[k].token : k \in {g \in Handlers : Starts(g) /\ Disputed(g)'}}
    BY <1>6 DEF Mixed
<1>8. mixed \subseteq mixed' /\ (Disputed(h)' => x.token \in mixed')
    BY <1>1, <1>3, <1>4, <1>7 DEF Starts
<1>9. MixedAreMixed'
    <2>1. SUFFICES ASSUME NEW k \in Handlers, call'[k] # Idle, Disputed(k)' PROVE call'[k].token \in mixed'
        BY DEF MixedAreMixed
    <2>2. CASE k = h
        BY <1>4, <1>8, <2>1, <2>2
    <2>3. CASE k # h
        <3>1. PICK g \in Handlers : call'[g] # Idle /\ call'[g].token = call'[k].token /\ call'[g].user # call'[k].user
            BY <2>1 DEF Disputed
        <3>2. CASE g = h
            <4>1. Disputed(h)'
                BY <2>1, <3>1, <3>2 DEF Disputed
            <4>. QED
                BY <1>4, <1>8, <3>1, <3>2, <4>1
        <3>3. CASE g # h
            BY <1>4, <1>8, <2>1, <2>3, <3>1, <3>3 DEF TokenInv, MixedAreMixed, Disputed
        <3>. QED
            BY <3>2, <3>3
    <2>. QED
        BY <2>2, <2>3
<1>10. OneAccountPerDevice' /\ DeadAreGone'
    BY <1>2, <1>3, <1>8 DEF TokenInv, OneAccountPerDevice, DeadAreGone, Installed
<1>11. ASSUME NEW k \in Handlers PROVE Registers(k)'
    <2>1. CASE k = h
        BY <1>4, <2>1 DEF Registers, x
    <2>2. CASE k # h
        BY <1>3, <1>4, <1>8, <2>2 DEF TokenInv, Registers
    <2>. QED
        BY <2>1, <2>2
<1>. QED
    BY <1>5, <1>9, <1>10, <1>11 DEF TokenInv

(* A registration that goes on, still with its user and token: no other    *)
(* account's comes or goes.                                                *)
LEMMA RegisterGoesOn ==
    ASSUME TokenInv, NEW h \in Handlers, NEW x, x # Idle, Goes(h, x), call[h] # Idle, call'[h] = x,
           x.user = call[h].user, x.token = call[h].token
    PROVE  /\ \A k \in Handlers : /\ k # h => call'[k] = call[k]
                                  /\ Disputed(k)' <=> Disputed(k)
                                  /\ ~Starts(k) /\ (Takes(k) => k = h)
           /\ mixed \subseteq mixed' => MixedAreMixed'
<1>1. \A k \in Handlers : k # h => call'[k] = call[k]
    BY DEF Goes, TokenInv, TypeOK
<1>2. \A k \in Handlers : /\ call'[k] = Idle <=> call[k] = Idle
                          /\ call[k] # Idle => call'[k].user = call[k].user /\ call'[k].token = call[k].token
    BY <1>1
<1>3. \A k \in Handlers : call[k] # Idle => (Disputed(k)' <=> Disputed(k))
    BY <1>2 DEF Disputed
<1>4. \A k \in Handlers : call[k] = Idle => call'[k] = call[k]
    BY <1>1
<1>5. \A k \in Handlers : Disputed(k)' <=> Disputed(k)
    BY <1>2, <1>3, <1>4 DEF Disputed
<1>6. \A k \in Handlers : ~Starts(k) /\ (Takes(k) => k = h)
    BY <1>1, <1>2 DEF Starts, Takes
<1>7. mixed \subseteq mixed' => MixedAreMixed'
    BY <1>2, <1>5 DEF TokenInv, MixedAreMixed
<1>. QED
    BY <1>1, <1>5, <1>6, <1>7

LEMMA TakeTokenStep ==
    ASSUME TokenInv, NEW h \in Handlers, TakeToken(h), Mixed
    PROVE  TokenInv'
<1> DEFINE x == [call[h] EXCEPT !.step = "read"]
           gone == OthersWith(call[h].user, call[h].token)
<1>0. call[h] # Idle /\ call[h].step = "take" /\ TypeOK
    BY DEF TakeToken, Going, Idle, TokenInv
<1>1. /\ x \in Registration /\ x # Idle /\ x.step = "read"
      /\ x.user = call[h].user /\ x.token = call[h].token
    BY <1>0, IdleStep DEF Registration, Idle
<1>2. /\ call' = [call EXCEPT ![h] = x] /\ Goes(h, x)
      /\ row' = [i \in DOMAIN row \ gone |-> row[i]]
      /\ UNCHANGED <<app, job, lastId>>
    BY DEF TakeToken, Goes, Without
<1>. HIDE DEF x, gone
<1>3. /\ call'[h] = x
      /\ DOMAIN row' = DOMAIN row \ gone
      /\ \A i \in DOMAIN row' : row'[i] = row[i]
      /\ \A i \in DOMAIN row' : row'[i].token = call[h].token => row'[i].user = call[h].user
    BY <1>0, <1>2 DEF TypeOK, gone, OthersWith
<1>4. TypeOK'
    BY <1>0, <1>1, <1>2, <1>3 DEF TypeOK, Registration, Job, Token
<1>5. /\ \A k \in Handlers \ {h} : call'[k] = call[k]
      /\ \A k \in Handlers : (Disputed(k)' <=> Disputed(k)) /\ ~Starts(k)
      /\ \A k \in Handlers : Takes(k) <=> k = h
      /\ mixed \subseteq mixed' => MixedAreMixed'
    <2>1. Takes(h)
        BY <1>0, <1>1, <1>3 DEF Takes
    <2>. QED
        BY <1>0, <1>1, <1>2, <1>3, <2>1, RegisterGoesOn
<1>6. mixed' = IF Disputed(h) THEN mixed ELSE mixed \ {call[h].token}
    BY <1>5 DEF Mixed
<1>7. ASSUME NEW k \in Handlers, call[k] # Idle, call[k].token = call[h].token, ~Disputed(h)
      PROVE  call[k].user = call[h].user
    BY <1>7 DEF Disputed
<1>8. MixedAreMixed'
    <2>1. ASSUME NEW k \in Handlers, call'[k] # Idle, Disputed(k)' PROVE call'[k].token \in mixed'
        <3>1. call[k] # Idle /\ call'[k].token = call[k].token /\ Disputed(k)
            BY <1>0, <1>1, <1>3, <1>5, <2>1
        <3>2. call[k].token \in mixed
            BY <3>1 DEF TokenInv, MixedAreMixed
        <3>3. ~Disputed(h) => call[k].token # call[h].token
            BY <1>7, <3>1 DEF Disputed
        <3>. QED
            BY <1>6, <3>1, <3>2, <3>3
    <2>. QED
        BY <2>1 DEF MixedAreMixed
<1>9. OneAccountPerDevice' /\ DeadAreGone'
    BY <1>2, <1>3, <1>6 DEF TokenInv, OneAccountPerDevice, DeadAreGone, Installed
<1>10. ASSUME NEW k \in Handlers PROVE Registers(k)'
    <2>1. CASE k = h
        BY <1>1, <1>3, <2>1 DEF Registers
    <2>2. CASE k # h
        <3>1. call'[k] = call[k] /\ Registers(k)
            BY <1>5, <2>2 DEF TokenInv
        <3>2. ASSUME call[k].step \in {"read", "write"}, call[k].token \notin mixed',
                     NEW i \in DOMAIN row', row'[i].token = call[k].token
              PROVE  row'[i].user = call[k].user
            <4>1. CASE call[k].token = call[h].token /\ ~Disputed(h)
                BY <1>3, <1>7, <3>2, <4>1 DEF Idle
            <4>2. CASE ~(call[k].token = call[h].token /\ ~Disputed(h))
                BY <1>3, <1>6, <3>1, <3>2, <4>2 DEF Registers
            <4>. QED
                BY <4>1, <4>2
        <3>. QED
            BY <1>3, <3>1, <3>2 DEF Registers
    <2>. QED
        BY <2>1, <2>2
<1>. QED
    BY <1>4, <1>8, <1>9, <1>10 DEF TokenInv

LEMMA ReadRowStep ==
    ASSUME TokenInv, NEW h \in Handlers, ReadRow(h), Mixed
    PROVE  TokenInv'
<1>1. PICK i \in IF RowsOf(call[h].user) = {} THEN {0} ELSE RowsOf(call[h].user) :
          Goes(h, [call[h] EXCEPT !.step = "write", !.id = i])
    BY Zenon DEF ReadRow
<1> DEFINE x == [call[h] EXCEPT !.step = "write", !.id = i]
<1>0. call[h] # Idle /\ call[h].step = "read" /\ TypeOK
    BY DEF ReadRow, Going, Idle, TokenInv
<1>2. /\ i \in 0 .. lastId
      /\ i \in DOMAIN row => row[i].user = call[h].user
    BY <1>1 DEF RowsOf, TokenInv, TypeOK
<1>3. /\ x \in Registration /\ x # Idle /\ x.step = "write" /\ x.id = i
      /\ x.user = call[h].user /\ x.token = call[h].token
    BY <1>0, <1>2, IdleStep DEF Registration, Idle
<1>4. /\ Goes(h, x) /\ call' = [call EXCEPT ![h] = x] /\ UNCHANGED <<app, row, job, lastId>>
    BY <1>1 DEF ReadRow, Goes
<1>. HIDE DEF x
<1>5. call'[h] = x /\ TypeOK'
    BY <1>0, <1>3, <1>4 DEF TypeOK, Registration, Job, Token
<1>6. /\ \A k \in Handlers \ {h} : call'[k] = call[k]
      /\ \A k \in Handlers : ~Starts(k) /\ ~Takes(k)
      /\ mixed \subseteq mixed' => MixedAreMixed'
    <2>1. ~Takes(h)
        BY <1>0 DEF Takes
    <2>. QED
        BY <1>0, <1>3, <1>4, <1>5, <2>1, RegisterGoesOn
<1>7. mixed' = mixed
    BY <1>6 DEF Mixed
<1>8. OneAccountPerDevice' /\ DeadAreGone'
    BY <1>4, <1>7 DEF TokenInv, OneAccountPerDevice, DeadAreGone, Installed
<1>9. ASSUME NEW k \in Handlers PROVE Registers(k)'
    <2>1. CASE k = h
        BY <1>0, <1>2, <1>3, <1>4, <1>5, <1>7, <2>1 DEF Registers, TokenInv
    <2>2. CASE k # h
        BY <1>4, <1>6, <1>7, <2>2 DEF TokenInv, Registers
    <2>. QED
        BY <2>1, <2>2
<1>. QED
    BY <1>5, <1>6, <1>7, <1>8, <1>9 DEF TokenInv

(* Registrations that end or stay leave no dispute behind.                 *)
LEMMA CallsEnd ==
    ASSUME TokenInv, Mixed, \A k \in Handlers : call'[k] \in {call[k], Idle}
    PROVE  mixed' = mixed /\ MixedAreMixed'
<1>1. \A k \in Handlers : ~Starts(k) /\ ~Takes(k)
    BY DEF Starts, Takes, Idle
<1>2. mixed' = mixed
    BY <1>1 DEF Mixed
<1>3. \A k \in Handlers : call'[k] # Idle => call'[k] = call[k] /\ (Disputed(k)' => Disputed(k))
    BY DEF Disputed
<1>. QED
    BY <1>2, <1>3 DEF TokenInv, MixedAreMixed

(* A row that gets the token: every other row with it is of the same user, *)
(* and so is every other registration of the token.                        *)
LEMMA WriteRowStep ==
    ASSUME TokenInv, NEW h \in Handlers, WriteRow(h), Mixed
    PROVE  TokenInv'
<1> DEFINE c == call[h]
           n == lastId + 1
<1>0. /\ c # Idle /\ c.step = "write" /\ c.user \in Users /\ c.token \in Token /\ c.id \in 0 .. lastId
      /\ lastId \in Nat /\ n \notin DOMAIN row /\ c.id # n
      /\ c.token \notin mixed =>
            \A i \in DOMAIN row : row[i].token = c.token => row[i].user = c.user
      /\ c.id \in DOMAIN row => row[c.id].user = c.user
      /\ DOMAIN row \subseteq 1 .. lastId
      /\ row \in [DOMAIN row -> [user : Users, token : Token]]
      /\ TypeOK
    <2>1. c # Idle /\ c.step = "write" /\ TypeOK /\ Registers(h)
        BY DEF WriteRow, Going, Idle, TokenInv
    <2>2. c \in [step : {"take", "read", "write"}, user : Users, token : Token, id : 0 .. lastId]
        BY <2>1, IdleStep
    <2>. QED
        BY <2>1, <2>2 DEF TypeOK, Registers
<1>1. /\ call' = [call EXCEPT ![h] = Idle] /\ UNCHANGED <<app, job>>
      /\ call'[h] = Idle /\ \A k \in Handlers \ {h} : call'[k] = call[k]
    BY <1>0 DEF WriteRow, Goes, TypeOK
<1>2. lastId' \in {lastId, n}
    BY DEF WriteRow
<1>3. /\ row' \in [DOMAIN row' -> [user : Users, token : Token]]
      /\ DOMAIN row \subseteq DOMAIN row' /\ DOMAIN row' \subseteq 1 .. lastId'
      /\ DOMAIN row' \subseteq DOMAIN row \cup {n}
      /\ \A i \in DOMAIN row : row'[i].user = row[i].user
      /\ \A i \in DOMAIN row' : \/ row'[i].token = c.token /\ row'[i].user = c.user
                                \/ i \in DOMAIN row /\ row'[i] = row[i]
    <2>1. CASE c.id = 0 /\ RowsOf(c.user) = {}
        <3>1. /\ lastId' = n
              /\ row' = [k \in DOMAIN row \cup {n} |->
                            IF k = n THEN [user |-> c.user, token |-> c.token] ELSE row[k]]
            BY <2>1 DEF WriteRow, Put
        <3>. QED
            BY <1>0, <3>1
    <2>2. CASE ~(c.id = 0 /\ RowsOf(c.user) = {}) /\ c.id \in DOMAIN row
        <3>1. lastId' = lastId /\ row' = [row EXCEPT ![c.id].token = c.token]
            BY <2>2 DEF WriteRow
        <3>2. [row[c.id] EXCEPT !.token = c.token] = [user |-> c.user, token |-> c.token]
            BY <1>0, <2>2
        <3>3. row' = [row EXCEPT ![c.id] = [user |-> c.user, token |-> c.token]]
            BY <3>1, <3>2
        <3>. QED
            BY <1>0, <2>2, <3>1, <3>3
    <2>3. CASE ~(c.id = 0 /\ RowsOf(c.user) = {}) /\ c.id \notin DOMAIN row
        <3>1. lastId' = lastId /\ row' = row
            BY <2>3 DEF WriteRow
        <3>. QED
            BY <1>0, <3>1
    <2>. QED
        BY <2>1, <2>2, <2>3
<1>4. mixed' = mixed /\ MixedAreMixed'
    BY <1>1, CallsEnd
<1>5. TypeOK'
    BY <1>0, <1>1, <1>2, <1>3 DEF TypeOK, Registration, Job, Token, Idle
<1>6. OneAccountPerDevice'
    BY <1>0, <1>3, <1>4 DEF TokenInv, OneAccountPerDevice
<1>7. DeadAreGone'
    BY <1>1 DEF TokenInv, DeadAreGone, Installed
<1>8. ASSUME NEW k \in Handlers PROVE Registers(k)'
    <2>1. CASE k = h
        BY <1>1, <2>1 DEF Registers, Idle
    <2>2. CASE k # h
        <3>1. call'[k] = call[k] /\ Registers(k) /\ call[k].id # n
            BY <1>0, <1>1, <2>2 DEF TokenInv, TypeOK, Registration, Idle
        <3>2. call[k] # Idle /\ call[k].token = c.token /\ c.token \notin mixed => call[k].user = c.user
            BY <1>0 DEF TokenInv, MixedAreMixed, Disputed
        <3>3. call[k].id \in DOMAIN row' => call[k].id \in DOMAIN row
            BY <1>3, <3>1
        <3>4. call[k].step \in {"read", "write"} => call[k] # Idle
            BY DEF Idle
        <3>. QED
            BY <1>1, <1>3, <1>4, <3>1, <3>2, <3>3, <3>4 DEF Registers
    <2>. QED
        BY <2>1, <2>2
<1>. QED
    BY <1>4, <1>5, <1>6, <1>7, <1>8 DEF TokenInv

(* Rows go, nobody is signed in any more on a phone, or nothing changes.   *)
LEMMA RowsGoStep ==
    ASSUME TokenInv, NEW S, row' = Without(S) \/ row' = row,
           job' \in [DOMAIN job' -> Job], DeadAreGone', UNCHANGED <<call, lastId, mixed>>,
           app' \in [Devices -> [user : Users \cup {Nobody}, token : Token]]
    PROVE  TokenInv'
<1>1. DOMAIN row' \subseteq DOMAIN row /\ \A i \in DOMAIN row' : row'[i] = row[i]
    BY DEF Without
<1>2. row' \in [DOMAIN row' -> [user : Users, token : Token]]
    BY <1>1 DEF TokenInv, TypeOK, Without
<1>3. TypeOK'
    BY <1>1, <1>2 DEF TokenInv, TypeOK, Registration, Job, Token
<1>4. OneAccountPerDevice' /\ MixedAreMixed'
    BY <1>1 DEF TokenInv, OneAccountPerDevice, MixedAreMixed, Disputed
<1>5. ASSUME NEW k \in Handlers PROVE Registers(k)'
    BY <1>1 DEF TokenInv, Registers
<1>. QED
    BY <1>3, <1>4, <1>5 DEF TokenInv

LEMMA SignOutStep ==
    ASSUME TokenInv, NEW d \in Devices, SignOut(d), Mixed
    PROVE  TokenInv'
<1>1. /\ app' = [app EXCEPT ![d] = [user |-> Nobody, token |-> app[d].token]]
    <2>1. [app[d] EXCEPT !.user = Nobody] = [user |-> Nobody, token |-> app[d].token]
        BY DEF TokenInv, TypeOK
    <2>. QED
        BY <2>1 DEF SignOut
<1>2. /\ app' \in [Devices -> [user : Users \cup {Nobody}, token : Token]]
      /\ \A e \in Devices : app'[e].token = app[e].token
    BY <1>1 DEF TokenInv, TypeOK
<1>3. /\ \E S : row' = Without(S) \/ row' = row
      /\ UNCHANGED <<call, job, lastId, mixed>>
    BY MixedStays DEF SignOut
<1>4. DeadAreGone' /\ job' \in [DOMAIN job' -> Job]
    BY <1>2, <1>3 DEF TokenInv, TypeOK, DeadAreGone, Installed
<1>. QED
    BY <1>2, <1>3, <1>4, RowsGoStep

(* Installing the app again gives the phone a token nobody has seen.       *)
LEMMA ReinstallStep ==
    ASSUME TokenInv, NEW d \in Devices, Reinstall(d), Mixed
    PROVE  TokenInv'
<1>1. /\ app' = [app EXCEPT ![d] = [user |-> Nobody, token |-> lastId + 1]]
      /\ lastId' = lastId + 1 /\ lastId \in Nat
      /\ UNCHANGED <<row, call, job, mixed>>
    BY MixedStays DEF Reinstall, TokenInv, TypeOK
<1>2. /\ app'[d].token = lastId + 1
      /\ \A e \in Devices \ {d} : app'[e] = app[e] /\ app[e].token \in Token
    BY <1>1 DEF TokenInv, TypeOK
<1>3. TypeOK'
    BY <1>1 DEF TokenInv, TypeOK, Registration, Job, Token
<1>4. DeadAreGone'
    <2>1. \A j \in DOMAIN job : job[j].dead \subseteq Token
        BY DEF TokenInv, TypeOK, Job
    <2>. QED
        BY <1>1, <1>2, <2>1 DEF TokenInv, DeadAreGone, Installed, Token
<1>5. OneAccountPerDevice' /\ MixedAreMixed'
    BY <1>1 DEF TokenInv, OneAccountPerDevice, MixedAreMixed, Disputed
<1>6. ASSUME NEW k \in Handlers PROVE Registers(k)'
    BY <1>1 DEF TokenInv, Registers
<1>. QED
    BY <1>3, <1>4, <1>5, <1>6 DEF TokenInv

-----------------------------------------------------------------------------
(* The jobs *)

(* A step of the job j that goes on as x and leaves the rows, or drops S.  *)
LEMMA JobStep ==
    ASSUME TokenInv, NEW j \in DOMAIN job, NEW x \in Job, Sets(j, x),
           \A t \in x.dead : ~Installed(t),
           NEW S, row' = Without(S) \/ row' = row, UNCHANGED <<app, call, lastId, mixed>>
    PROVE  TokenInv'
<1>1. DOMAIN job' = DOMAIN job /\ job' \in [DOMAIN job' -> Job]
      /\ \A k \in DOMAIN job : job'[k] = IF k = j THEN x ELSE job[k]
    BY DEF Sets, TokenInv, TypeOK
<1>2. DeadAreGone'
    BY <1>1 DEF TokenInv, DeadAreGone, Installed
<1>3. app' \in [Devices -> [user : Users \cup {Nobody}, token : Token]]
    BY DEF TokenInv, TypeOK
<1>. QED
    BY <1>1, <1>2, <1>3, RowsGoStep

LEMMA ScheduleStep ==
    ASSUME TokenInv, NEW specs, specs \subseteq Users \X Channels, Schedule(specs), Mixed
    PROVE  TokenInv'
<1> DEFINE first == Cardinality(Scheduled) + 1
           ids == first .. first + Cardinality(specs) - 1
<1>1. UNCHANGED <<app, row, call, lastId, mixed>>
    BY MixedStays DEF Schedule
<1>2. PICK order \in [ids -> specs] :
          job' = [i \in DOMAIN job \cup ids |->
                     IF i \in ids THEN NewJob(order[i][1], order[i][2]) ELSE job[i]]
    BY DEF Schedule
<1>. HIDE DEF ids
<1>3. ASSUME NEW i \in DOMAIN job' PROVE \/ i \in DOMAIN job /\ job'[i] = job[i]
                                         \/ job'[i] \in Job /\ job'[i].dead = {}
    <2>1. CASE i \in ids
        <3>1. PICK u \in Users, channel \in Channels : job'[i] = NewJob(u, channel)
            BY <1>2, <2>1
        <3>. QED
            BY <3>1 DEF NewJob, Job
    <2>2. CASE i \notin ids
        BY <1>2, <2>2
    <2>. QED
        BY <2>1, <2>2
<1>4. \A i \in DOMAIN job' : job'[i] \in Job
    BY <1>3 DEF TokenInv, TypeOK
<1>5. job' = [i \in DOMAIN job' |-> job'[i]]
    BY <1>2
<1>6. job' \in [DOMAIN job' -> Job]
    BY <1>4, <1>5
<1>7. DeadAreGone'
    BY <1>1, <1>3 DEF TokenInv, DeadAreGone, Installed
<1>8. app' \in [Devices -> [user : Users \cup {Nobody}, token : Token]]
    BY <1>1 DEF TokenInv, TypeOK
<1>. QED
    BY <1>1, <1>6, <1>7, <1>8, RowsGoStep

LEMMA BeginsStep ==
    ASSUME TokenInv, NEW j \in DOMAIN job, Begins(j), Mixed
    PROVE  TokenInv'
<1> DEFINE tokens == {row[i].token : i \in RowsOf(job[j].user)}
           x == IF job[j].channel = "push" /\ tokens # {}
                THEN [job[j] EXCEPT !.step = "send", !.left = tokens]
                ELSE [job[j] EXCEPT !.step = "log"]
<1>1. job[j] \in Job /\ Sets(j, x) /\ UNCHANGED <<app, row, call, lastId, mixed>>
    BY MixedStays DEF TokenInv, TypeOK, Begins
<1>2. tokens \subseteq Token
    BY DEF RowsOf, TokenInv, TypeOK
<1>3. x \in Job /\ x.dead = job[j].dead
    <2> DEFINE sends == [job[j] EXCEPT !.step = "send", !.left = tokens]
               ends == [job[j] EXCEPT !.step = "log"]
    <2>1. x \in {sends, ends}
        OBVIOUS
    <2>2. job[j] \in Job
        BY <1>1
    <2>. HIDE DEF tokens
    <2>3. sends \in Job /\ sends.dead = job[j].dead
        BY <1>2, <2>2 DEF Job
    <2>4. ends \in Job /\ ends.dead = job[j].dead
        BY <2>2 DEF Job
    <2>. QED
        BY <2>1, <2>3, <2>4
<1>. HIDE DEF x
<1>4. \A t \in x.dead : ~Installed(t)
    BY <1>3 DEF TokenInv, DeadAreGone
<1>. QED
    BY <1>1, <1>3, <1>4, JobStep

(* Only a token that no phone has any more is called dead, and it stays    *)
(* so: an installation's token is never given out again.                   *)
LEMMA SendStep ==
    ASSUME TokenInv, NEW j \in DOMAIN job, NEW t \in job[j].left, Send(j, t), Mixed
    PROVE  TokenInv'
<1> DEFINE x == [job[j] EXCEPT !.step = IF job[j].left = {t} THEN "prune" ELSE @,
                               !.left = @ \ {t},
                               !.dead = @ \cup (IF Installed(t) THEN {} ELSE {t})]
<1>1. job[j] \in Job /\ t \in Token /\ UNCHANGED <<app, row, call, lastId, mixed>>
    BY MixedStays DEF TokenInv, TypeOK, Send, Job
<1>2. x \in Job /\ x.dead = job[j].dead \cup (IF Installed(t) THEN {} ELSE {t})
    <2> DEFINE s == IF job[j].left = {t} THEN "prune" ELSE job[j].step
               l == job[j].left \ {t}
               D == job[j].dead \cup (IF Installed(t) THEN {} ELSE {t})
    <2>1. s \in {"queued", "send", "prune", "log"} /\ l \in SUBSET Token /\ D \in SUBSET Token
        BY <1>1 DEF Job
    <2>2. x = [job[j] EXCEPT !.step = s, !.left = l, !.dead = D]
        BY Zenon
    <2>. HIDE DEF s, l, D, x
    <2>3. x \in Job /\ x.dead = D
        BY <1>1, <2>1, <2>2 DEF Job
    <2>. QED
        BY <2>3 DEF D
<1>3. Sets(j, x)
    BY DEF Send
<1>. HIDE DEF x
<1>4. \A s \in x.dead : ~Installed(s)
    BY <1>2 DEF TokenInv, DeadAreGone
<1>. QED
    BY <1>1, <1>2, <1>3, <1>4, JobStep

LEMMA PruneStep ==
    ASSUME TokenInv, NEW j \in DOMAIN job, Prune(j), Mixed
    PROVE  TokenInv'
<1> DEFINE x == [job[j] EXCEPT !.step = "log"]
<1>1. job[j] \in Job /\ Sets(j, x) /\ UNCHANGED <<app, call, lastId, mixed>>
    BY MixedStays DEF TokenInv, TypeOK, Prune
<1>2. x \in Job /\ \A t \in x.dead : ~Installed(t)
    BY <1>1 DEF TokenInv, DeadAreGone, Job
<1>3. \E S : row' = Without(S) \/ row' = row
    BY DEF Prune
<1>. QED
    BY <1>1, <1>2, <1>3, JobStep

(* Jobs end, by their log row or with the process, and no row changes.     *)
LEMMA JobsEnd ==
    ASSUME TokenInv, DOMAIN job' \subseteq DOMAIN job, job' = [k \in DOMAIN job' |-> job[k]],
           \A h \in Handlers : call'[h] \in {call[h], Idle}, call' \in [Handlers -> Registration],
           UNCHANGED <<app, row, lastId>>, Mixed
    PROVE  TokenInv'
<1>1. TypeOK'
    BY DEF TokenInv, TypeOK, Registration, Job, Token
<1>2. mixed' = mixed /\ MixedAreMixed'
    BY CallsEnd
<1>3. OneAccountPerDevice' /\ DeadAreGone'
    BY <1>2 DEF TokenInv, OneAccountPerDevice, DeadAreGone, Installed
<1>4. ASSUME NEW k \in Handlers PROVE Registers(k)'
    BY <1>2 DEF TokenInv, Registers, Idle
<1>. QED
    BY <1>1, <1>2, <1>3, <1>4 DEF TokenInv

LEMMA WriteLogStep ==
    ASSUME TokenInv, NEW j \in DOMAIN job, WriteLog(j), Mixed
    PROVE  TokenInv'
BY JobsEnd DEF WriteLog, TokenInv, TypeOK

LEMMA RestartStep ==
    ASSUME TokenInv, Restart, Mixed
    PROVE  TokenInv'
<1>1. /\ job' = [j \in {} |-> Nobody]
      /\ call' = [h \in Handlers |-> Idle]
      /\ UNCHANGED <<app, row, lastId>>
    BY DEF Restart
<1>2. job' = [k \in DOMAIN job' |-> job[k]] /\ DOMAIN job' \subseteq DOMAIN job
    BY <1>1
<1>3. call' \in [Handlers -> Registration]
    BY <1>1 DEF Registration
<1>. QED
    BY <1>1, <1>2, <1>3, JobsEnd

-----------------------------------------------------------------------------

LEMMA TokenNext == TokenInv /\ [MCNext]_mcVars => TokenInv'
<1>. SUFFICES ASSUME TokenInv, [MCNext]_mcVars PROVE TokenInv'
    OBVIOUS
<1>1. CASE MCNext
    <2>. USE <1>1 DEF MCNext
    <2>1. ASSUME NEW h \in Handlers, TakeToken(h) \/ ReadRow(h) \/ WriteRow(h)
          PROVE  TokenInv'
        BY <2>1, TakeTokenStep, ReadRowStep, WriteRowStep
    <2>2. ASSUME NEW d \in Devices, SignOut(d) \/ Reinstall(d)
          PROVE  TokenInv'
        BY <2>2, SignOutStep, ReinstallStep
    <2>3. ASSUME NEW h \in Handlers, NEW d \in Devices, NEW u \in Users, SignIn(h, d, u)
          PROVE  TokenInv'
        BY <2>3, SignInStep
    <2>4. ASSUME NEW u \in Users, NEW channel \in Channels, Notify(u, channel)
          PROVE  TokenInv'
        BY <2>4, ScheduleStep DEF Notify
    <2>5. CASE SendSupportMessage
        <3>1. Admins \X {"email", "push"} \subseteq Users \X Channels
            BY NotificationAssumption DEF Channels
        <3>. QED
            BY <2>5, <3>1, ScheduleStep DEF SendSupportMessage
    <2>6. ASSUME NEW target \in SUBSET Users, NEW channels \in SUBSET Channels,
                 SendAdminNotification(target, channels)
          PROVE  TokenInv'
        <3> DEFINE specs == {s \in target \X channels : s[2] = "push" \/ s[2] \in Reachable[s[1]]}
        <3>1. specs \subseteq Users \X Channels
            OBVIOUS
        <3>2. Schedule(specs)
            BY <2>6 DEF SendAdminNotification
        <3>. QED
            BY <3>1, <3>2, ScheduleStep
    <2>7. ASSUME NEW j \in DOMAIN job, Runs(j)
          PROVE  TokenInv'
        BY <2>7, BeginsStep, SendStep, PruneStep, WriteLogStep DEF Runs
    <2>8. CASE Restart
        BY <2>8, RestartStep
    <2>. QED
        BY <2>1, <2>2, <2>3, <2>4, <2>5, <2>6, <2>7, <2>8 DEF Next
<1>2. CASE UNCHANGED mcVars
    <2>1. UNCHANGED <<app, row, call, job, lastId, mixed>>
        BY <1>2 DEF mcVars, vars
    <2>. QED
        BY <2>1 DEF TokenInv, TypeOK, OneAccountPerDevice, DeadAreGone, MixedAreMixed, Disputed,
                    Registers, Installed, Registration, Job, Token
<1>. QED
    BY <1>1, <1>2

LEMMA TokenInvariant == MCSpec => []TokenInv
<1>1. MCInit => TokenInv
    BY InitialInv
<1>2. TokenInv /\ [MCNext]_mcVars => TokenInv'
    BY TokenNext
<1>. QED
    BY <1>1, <1>2, PTL DEF MCSpec

(* registerDeviceToken: after any interleaving of registrations, sign-outs *)
(* and dead tokens, all the rows with one device's token are of one user,  *)
(* unless two accounts registered that token at once and none has          *)
(* registered it by itself since.                                          *)
THEOREM OneAccount == MCSpec => []OneAccountPerDevice
<1>1. TokenInv => OneAccountPerDevice
    BY DEF TokenInv
<1>. QED
    BY <1>1, TokenInvariant, PTL

(* The prune that ends a push drops no token of an installed app, whoever  *)
(* signed in, out or registered since the job read the tokens.             *)
THEOREM LiveTokensKept == MCSpec => LiveTokensStay
<1>1. ASSUME TokenInv, [MCNext]_mcVars, NEW j \in DOMAIN job, job[j].step = "prune", job' # job,
             NEW i \in DOMAIN row \ DOMAIN row'
      PROVE  ~Installed(row[i].token)
    <2>1. PICK k \in DOMAIN job : Prune(k)
        <3>1. Next
            BY <1>1 DEF MCNext, mcVars, vars
        <3>2. ~\E d \in Devices : SignOut(d) \/ Reinstall(d)
            BY <1>1 DEF SignOut, Reinstall
        <3>3. ~\E h \in Handlers : \/ TakeToken(h) \/ ReadRow(h) \/ WriteRow(h)
                                   \/ \E d \in Devices, u \in Users : SignIn(h, d, u)
            <4>1. ASSUME NEW h \in Handlers
                  PROVE  ~TakeToken(h) /\ ~ReadRow(h) /\ ~WriteRow(h)
                BY <1>1, Zenon DEF TakeToken, ReadRow, WriteRow
            <4>2. ASSUME NEW h \in Handlers, NEW d \in Devices, NEW u \in Users
                  PROVE  ~SignIn(h, d, u)
                BY <1>1, Zenon DEF SignIn
            <4>. QED
                BY <4>1, <4>2
        <3>4. ASSUME NEW specs PROVE ~Schedule(specs)
            BY <1>1 DEF Schedule
        <3>5. ASSUME NEW k \in DOMAIN job
              PROVE  ~(Begins(k) \/ (\E t \in job[k].left : Send(k, t)) \/ WriteLog(k))
            BY <1>1, Zenon DEF Begins, Send, WriteLog
        <3>6. ~Restart
            BY <1>1 DEF Restart
        <3>7. /\ ~\E u \in Users, channel \in Channels : Notify(u, channel)
              /\ ~SendSupportMessage
              /\ ~\E target \in SUBSET Users, channels \in SUBSET Channels :
                     SendAdminNotification(target, channels)
            BY <3>4 DEF Notify, SendSupportMessage, SendAdminNotification
        <3>. QED
            BY <3>1, <3>2, <3>3, <3>5, <3>6, <3>7 DEF Next, Runs
    <2>2. i \in DeadRows(job[k].user, job[k].dead)
        BY <1>1, <2>1 DEF Prune, Without
    <2>. QED
        BY <1>1, <2>2 DEF DeadRows, TokenInv, DeadAreGone
<1>2. TokenInv /\ [MCNext]_mcVars =>
          [\A j \in DOMAIN job :
             job[j].step = "prune" /\ job' # job =>
               \A i \in DOMAIN row \ DOMAIN row' : ~Installed(row[i].token)]_vars
    BY <1>1 DEF mcVars
<1>. QED
    BY <1>2, TokenInvariant, PTL DEF MCSpec, LiveTokensStay

-----------------------------------------------------------------------------
(* Accounts and sessions.                                                  *)

(* The tables, the apps and the calls keep their shapes.                   *)

(* What a query sets of a user's row, and the queries there are.           *)
Fields ==
    [password : {TRUE}] \cup [active : {FALSE}, phone : {None}]
      \cup [phone : Phones \cup {None}, role : RoleNames, active : BOOLEAN] \cup Changes

Simple == {"addProfile", "close", "dropDocuments", "issue", "revokeAll", "clearDefault", "deleteUser", "findProfile"}

Queries ==
    [do : {"newUser"}, row : UserRows] \cup [do : {"setUser"}, fields : Fields]
      \cup [do : Simple]
      \cup [do : {"draw"}, left : Nat] \cup [do : {"readCode"}, id : {None}, value : Nat]
      \cup [do : {"send"}, id : {None}, value : OtpRows] \cup [do : {"miss"}, id : Nat, value : Nat]
      \cup [do : {"revoke", "spend"}, id : Nat, value : {TRUE}]
      \cup [do : {"addAddress", "setAddress", "dropAddress"}, id : Nat, value : BOOLEAN]
      \cup [do : {"findOrCreate", "findUser"}, id : Phones, value : RoleNames]

(* The tables: one record, ids up to the last one, rows of their types.    *)
Tables ==
    /\ db = [user |-> user, profile |-> profile, documents |-> documents, token |-> token, otp |-> otp, address |-> address]
    /\ DOMAIN user \cup DOMAIN token \cup DOMAIN otp \cup DOMAIN address \subseteq 1 .. lastKey
    /\ user \in [DOMAIN user -> UserRows]
    /\ token \in [DOMAIN token -> [user : Nat, revoked : Nat \cup {Never}]]
    /\ otp \in [DOMAIN otp -> OtpRows]
    /\ lastKey \in Nat /\ now \in Nat /\ cuts \in Nat
    /\ device \in [Apps -> [token : Nat, user : Nat, since : Nat \cup {Never}]]

(* After a query of Late nothing changes whom the call is about.           *)
Late == {"issue", "readCode", "draw", "findProfile", "addProfile"}
(* What the removal of an account is made of; the calls that remove one or *)
(* sign its apps out, and those that enrol.                                *)
Removal == {"close", "dropDocuments", "setUser", "revokeAll", "deleteUser"}
Deletions == {"deleteAccount", "deleteUser", "deleteMember", "resetVendor"}
Enrols == {"register", "partnerLogin"}

AllLate(s) == \A i \in 1 .. Len(s) : s[i].do \in Late

(* What is left of a call: once a query of Late was reached all are; only  *)
(* the first spends a code; only removals revoke all tokens or delete.     *)
IsList(what, s) ==
    /\ s \in Seq(Queries)
    /\ \A i, j \in 1 .. Len(s) : i < j /\ s[i].do \in Late => s[j].do \in Late
    /\ \A i \in 1 .. Len(s) : i > 1 => s[i].do # "spend"
    /\ what \in Deletions => \A i \in 1 .. Len(s) : s[i].do \in Removal
    /\ what \notin Deletions => \A i \in 1 .. Len(s) : s[i].do \notin {"revokeAll", "deleteUser"}

(* A call, free or in progress.                                            *)
IsRequest(c) ==
    /\ c = [what |-> c.what, at |-> c.at, user |-> c.user, token |-> c.token, code |-> c.code, todo |-> c.todo]
    /\ c.user \in 0 .. lastKey /\ c.token \in 0 .. lastKey
    /\ IsList(c.what, c.todo)

Shapes ==
    /\ Tables
    /\ request = [h \in Slots |-> request[h]]
    /\ \A h \in Slots : IsRequest(request[h])

-----------------------------------------------------------------------------
(* Referral codes.                                                         *)

(* What was told, and what a call is about to tell, is in the user's row,  *)
(* if the row is still there.                                              *)
CodeInv ==
    /\ \A t \in told : /\ t[1] \in 0 .. lastKey /\ t[2] # None
                       /\ t[1] \in DOMAIN user => user[t[1]].code = t[2]
    /\ \A h \in Slots : request[h].code # None =>
         /\ AllLate(request[h].todo)
         /\ request[h].user \in DOMAIN user => user[request[h].user].code = request[h].code

(* The rows of riders and vendors.                                         *)

WillEnrol(s) == \E i \in 1 .. Len(s) : s[i].do \in {"findProfile", "addProfile"}

(* A call that enrols still has the row to look up, or found it.           *)
EnrolInv ==
    /\ enrolled \subseteq 0 .. lastKey
    /\ EnrolledHasProfile
    /\ \A h \in Slots : request[h].what \in Enrols =>
         \/ WillEnrol(request[h].todo)
         \/ AllLate(request[h].todo) /\ (request[h].user \in DOMAIN user => request[h].user \in DOMAIN profile)

(* One-time passwords.                                                     *)

(* A code is spent when it was used, has expired, or a call is about to    *)
(* use it.  As long as calls were alone, no more were let in than codes    *)
(* spent.                                                                  *)
Spends(s, c) == \E i \in 1 .. Len(s) : s[i].do = "spend" /\ s[i].id = c
Spent == {c \in DOMAIN otp : ~otp[c].unused \/ \E h \in Slots : Spends(request[h].todo, c)}

SpentInv ==
    /\ Valid(db)
    /\ alone \in BOOLEAN /\ accepted \in Nat
    /\ alone => /\ \A h, k \in Slots : h # k => request[h] = NoRequest \/ request[k] = NoRequest
                /\ accepted <= Cardinality(Spent)

(* Refresh tokens.                                                         *)

(* A token of user u that an app has tried since then: it is live, or was  *)
(* revoked no earlier than it was tried, or the user's sessions began to   *)
(* be ended.                                                               *)
KnownToken(t, u, since) ==
    IF t \in DOMAIN token
    THEN /\ token[t].user = u
         /\ token[t].revoked = Never \/ u \in ended \/ (since # Never /\ since <= token[t].revoked)
    ELSE u \in ended

Revokes(s, t) == \E i \in 1 .. Len(s) : s[i].do = "revoke" /\ s[i].id = t

(* No two apps hold the same token, no call is to hand out one that an app *)
(* holds, and a call that revokes it was made by the app, which has tried  *)
(* it.                                                                     *)
AppInv ==
    \A d \in Apps :
      /\ device[d].since <= now
      /\ device[d].token # None =>
           /\ device[d].token <= lastKey
           /\ KnownToken(device[d].token, device[d].user, device[d].since)
           /\ \A e \in Apps : e # d => device[e].token # device[d].token
           /\ \A h \in Slots : request[h].token # device[d].token
           /\ \A h \in Slots : Revokes(request[h].todo, device[d].token) => device[d].since # Never

(* A token that a call is to hand out is live, and no one else's.          *)
SessionInv ==
    /\ AppInv
    /\ \A t \in DOMAIN token : token[t].revoked <= now
    /\ \A h \in Slots :
         /\ request[h].what \in Deletions => request[h].user \in ended
         /\ \A t \in Nat : Revokes(request[h].todo, t) => t <= lastKey
         /\ request[h].token # None =>
              /\ AllLate(request[h].todo)
              /\ KnownToken(request[h].token, request[h].user, Never)
              /\ \A k \in Slots : k # h => request[k].token # request[h].token
              /\ \A k \in Slots : ~ Revokes(request[k].todo, request[h].token)

AccountInv == Shapes /\ CodeInv /\ EnrolInv /\ SpentInv /\ SessionInv

-----------------------------------------------------------------------------
(* Lists of queries.                                                       *)

(* A query before a list.                                                  *)
LEMMA Consing ==
    ASSUME NEW S, NEW q \in S, NEW s \in Seq(S)
    PROVE  /\ <<q>> \o s \in Seq(S) /\ Len(<<q>> \o s) = Len(s) + 1
           /\ (<<q>> \o s)[1] = q /\ \A i \in 1 .. Len(s) : (<<q>> \o s)[i + 1] = s[i]
OBVIOUS

(* What comes after the first query of a list.                             *)
LEMMA Tailing ==
    ASSUME NEW S, NEW s \in Seq(S), s # <<>>
    PROVE  /\ Tail(s) \in Seq(S) /\ Len(s) \in Nat /\ Len(s) > 0 /\ Len(Tail(s)) = Len(s) - 1
           /\ Head(s) = s[1] /\ Head(s) \in S
           /\ \A i \in 1 .. Len(s) - 1 : Tail(s)[i] = s[i + 1]
OBVIOUS

(* What is left of a call's list is such a list.                           *)
LEMMA TailOf ==
    ASSUME NEW what, NEW s, IsList(what, s), s # <<>>
    PROVE  /\ IsList(what, Tail(s)) /\ Head(s) \in Queries /\ Head(s) = s[1]
           /\ \A i \in 1 .. Len(Tail(s)) : i + 1 \in 1 .. Len(s) /\ i + 1 > 1 /\ Tail(s)[i] = s[i + 1]
           /\ 1 \in 1 .. Len(s)
<1>1. s \in Seq(Queries)
    BY DEF IsList
<1>2. PICK t : t = Tail(s)
    OBVIOUS
<1>3. /\ t \in Seq(Queries) /\ Len(s) \in Nat /\ Len(s) > 0 /\ Len(t) = Len(s) - 1
      /\ \A i \in 1 .. Len(t) : i + 1 \in 1 .. Len(s) /\ i + 1 > 1 /\ t[i] = s[i + 1]
      /\ Head(s) = s[1] /\ Head(s) \in Queries
    BY <1>1, <1>2, Tailing
<1>4. IsList(what, t)
    BY <1>3 DEF IsList
<1>. QED
    BY <1>2, <1>3, <1>4

(* A query instead of the first one of a list.                             *)
LEMMA Instead ==
    ASSUME NEW what, NEW s, IsList(what, s), s # <<>>, NEW q \in Queries,
           q.do \in Late => s[1].do \in Late,
           what \in Deletions => q.do \in Removal,
           what \notin Deletions => q.do \notin {"revokeAll", "deleteUser"}
    PROVE  /\ IsList(what, <<q>> \o Tail(s)) /\ (<<q>> \o Tail(s))[1] = q
           /\ Len(<<q>> \o Tail(s)) = Len(s) /\ 1 \in 1 .. Len(s)
           /\ \A i \in 1 .. Len(s) : i > 1 => (<<q>> \o Tail(s))[i] = s[i]
<1>1. s \in Seq(Queries)
    BY DEF IsList
<1>2. PICK t : t = Tail(s)
    OBVIOUS
<1>3. /\ t \in Seq(Queries) /\ Len(s) \in Nat /\ Len(s) > 0 /\ Len(t) = Len(s) - 1
      /\ \A i \in 1 .. Len(s) - 1 : t[i] = s[i + 1]
    BY <1>1, <1>2, Tailing
<1>4. PICK r : r = <<q>> \o t
    OBVIOUS
<1>5. /\ r \in Seq(Queries) /\ Len(r) = Len(t) + 1 /\ r[1] = q
      /\ \A i \in 1 .. Len(t) : r[i + 1] = t[i]
    BY <1>3, <1>4, Consing
<1>6. Len(r) = Len(s)
    BY <1>3, <1>5
<1>7. ASSUME NEW i \in 1 .. Len(s), i > 1
      PROVE  r[i] = s[i]
  <2>1. i - 1 \in 1 .. Len(t) /\ i - 1 + 1 = i
      BY <1>3, <1>7
  <2>2. r[i - 1 + 1] = t[i - 1] /\ t[i - 1] = s[i - 1 + 1]
      BY <1>3, <1>5, <2>1
  <2>. QED
      BY <2>1, <2>2
<1>8. ASSUME NEW i \in 1 .. Len(r), NEW j \in 1 .. Len(r), i < j, r[i].do \in Late
      PROVE  r[j].do \in Late
  <2>1. j > 1 /\ r[j] = s[j] /\ j \in 1 .. Len(s) /\ 1 \in 1 .. Len(s) /\ 1 < j
      BY <1>3, <1>6, <1>7, <1>8
  <2>2. CASE i = 1
      BY <1>5, <1>8, <2>1, <2>2 DEF IsList
  <2>3. CASE i # 1
    <3>1. i > 1 /\ i \in 1 .. Len(s)
        BY <1>6, <2>3
    <3>2. s[i].do \in Late
        BY <1>7, <1>8, <3>1
    <3>. QED
        BY <1>8, <2>1, <3>1, <3>2 DEF IsList
  <2>. QED
      BY <2>2, <2>3
<1>9. \A i \in 1 .. Len(r) : i > 1 => r[i].do # "spend"
    BY <1>6, <1>7 DEF IsList
<1>10. \A i \in 1 .. Len(r) : i = 1 \/ (i > 1 /\ i \in 1 .. Len(s) /\ r[i] = s[i])
    BY <1>6, <1>7
<1>11. what \in Deletions => \A i \in 1 .. Len(r) : r[i].do \in Removal
    BY <1>5, <1>10 DEF IsList
<1>12. what \notin Deletions => \A i \in 1 .. Len(r) : r[i].do \notin {"revokeAll", "deleteUser"}
    BY <1>5, <1>10 DEF IsList
<1>13. IsList(what, r)
    BY <1>5, <1>8, <1>9, <1>11, <1>12 DEF IsList
<1>. QED
    BY <1>2, <1>3, <1>4, <1>5, <1>6, <1>7, <1>13

(* What is known of a list is known of what is left of it.                 *)
LEMMA TailHas ==
    ASSUME NEW what, NEW s, IsList(what, s), s # <<>>
    PROVE  /\ AllLate(s) => AllLate(Tail(s)) /\ Head(s).do \in Late
           /\ Head(s).do \in Late => AllLate(s)
           /\ \A t : Revokes(Tail(s), t) => Revokes(s, t)
           /\ \A t : Revokes(s, t) => Revokes(Tail(s), t) \/ (Head(s).do = "revoke" /\ Head(s).id = t)
           /\ \A c : ~ Spends(Tail(s), c)
           /\ \A c : Spends(s, c) => Head(s).do = "spend" /\ Head(s).id = c
           /\ WillEnrol(s) => WillEnrol(Tail(s)) \/ Head(s).do \in {"findProfile", "addProfile"}
<1>1. PICK t : t = Tail(s)
    OBVIOUS
<1>2. /\ IsList(what, t) /\ Head(s) = s[1] /\ 1 \in 1 .. Len(s)
      /\ \A i \in 1 .. Len(t) : i + 1 \in 1 .. Len(s) /\ i + 1 > 1 /\ t[i] = s[i + 1]
    BY <1>1, TailOf
<1>3. s \in Seq(Queries) /\ Len(s) \in Nat /\ Len(t) = Len(s) - 1
    BY <1>1, Tailing DEF IsList
<1>4. \A i \in 1 .. Len(s) : i = 1 \/ (i > 1 /\ i - 1 \in 1 .. Len(t) /\ s[i] = t[i - 1])
  <2>1. TAKE i \in 1 .. Len(s)
  <2>2. CASE i # 1
    <3>1. i > 1 /\ i - 1 \in 1 .. Len(t) /\ i - 1 + 1 = i
        BY <1>3, <2>2
    <3>2. t[i - 1] = s[i - 1 + 1]
        BY <1>2, <3>1
    <3>. QED
        BY <3>1, <3>2
  <2>. QED
      BY <2>2
<1>5. AllLate(s) => AllLate(t) /\ Head(s).do \in Late
    BY <1>2 DEF AllLate
<1>6. Head(s).do \in Late => AllLate(s)
  <2>1. \A i \in 1 .. Len(s) : i = 1 \/ 1 < i
      BY <1>3
  <2>. QED
      BY <1>2, <2>1 DEF AllLate, IsList
<1>7. \A x : Revokes(t, x) => Revokes(s, x)
    BY <1>2 DEF Revokes
<1>8. \A x : Revokes(s, x) => Revokes(t, x) \/ (Head(s).do = "revoke" /\ Head(s).id = x)
    BY <1>2, <1>4 DEF Revokes
<1>9. \A c : ~ Spends(t, c)
    BY <1>2 DEF Spends, IsList
<1>10. \A c : Spends(s, c) => Head(s).do = "spend" /\ Head(s).id = c
    BY <1>2, <1>4 DEF Spends, IsList
<1>11. WillEnrol(s) => WillEnrol(t) \/ Head(s).do \in {"findProfile", "addProfile"}
    BY <1>2, <1>4 DEF WillEnrol
<1>. QED
    BY <1>1, <1>5, <1>6, <1>7, <1>8, <1>9, <1>10, <1>11

(* And where a query has taken the place of the first.                     *)
LEMMA InsteadHas ==
    ASSUME NEW what, NEW s, IsList(what, s), s # <<>>, NEW q \in Queries,
           q.do \in Late => s[1].do \in Late, q.do \notin {"revoke", "spend"},
           what \in Deletions => q.do \in Removal,
           what \notin Deletions => q.do \notin {"revokeAll", "deleteUser"}
    PROVE  /\ IsList(what, <<q>> \o Tail(s))
           /\ q.do \in Late => AllLate(<<q>> \o Tail(s)) /\ AllLate(s)
           /\ \A t : Revokes(<<q>> \o Tail(s), t) => Revokes(s, t)
           /\ \A c : ~ Spends(<<q>> \o Tail(s), c)
           /\ WillEnrol(s) => WillEnrol(<<q>> \o Tail(s)) \/ Head(s).do \in {"findProfile", "addProfile"}
           /\ q.do = "addProfile" => WillEnrol(<<q>> \o Tail(s))
<1>1. PICK r : r = <<q>> \o Tail(s)
    OBVIOUS
<1>2. /\ IsList(what, r) /\ r[1] = q /\ Len(r) = Len(s) /\ 1 \in 1 .. Len(s)
      /\ \A i \in 1 .. Len(s) : i > 1 => r[i] = s[i]
    BY <1>1, Instead
<1>3. Head(s) = s[1] /\ s \in Seq(Queries) /\ Len(s) \in Nat
    BY Tailing DEF IsList
<1>4. \A i \in 1 .. Len(s) : i = 1 \/ (i > 1 /\ 1 < i /\ r[i] = s[i])
    BY <1>2, <1>3
<1>5. q.do \in Late => AllLate(r) /\ AllLate(s)
    BY <1>2, <1>4 DEF AllLate, IsList
<1>6. \A t : Revokes(r, t) => Revokes(s, t)
    BY <1>2, <1>4 DEF Revokes
<1>7. \A c : ~ Spends(r, c)
    BY <1>2, <1>4 DEF Spends, IsList
<1>8. WillEnrol(s) => WillEnrol(r) \/ Head(s).do \in {"findProfile", "addProfile"}
    BY <1>2, <1>3, <1>4 DEF WillEnrol
<1>9. q.do = "addProfile" => WillEnrol(r)
    BY <1>2 DEF WillEnrol
<1>. QED
    BY <1>1, <1>2, <1>5, <1>6, <1>7, <1>8, <1>9

-----------------------------------------------------------------------------
(* What a step of a call does to the tables and to the call.               *)

(* The other calls stay as they are.                                       *)
OthersStay(h) == request' = [k \in Slots |-> request'[k]] /\ \A k \in Slots : k # h => request'[k] = request[k]

(* No step gives a user another code, and ids are not used again.          *)
UsersKept ==
    \A w \in DOMAIN user' :
      w > lastKey \/ (w \in DOMAIN user /\ (user[w].code # None => user'[w].code = user[w].code))

ProfilesKept == \A w \in DOMAIN profile \cap DOMAIN user' : w \in DOMAIN profile'

(* Tokens change hands never; they are revoked by the call of the app that *)
(* holds them, or by the removal of their user.                            *)
Removes(h, u) == request[h].what \in Deletions /\ request[h].user = u

TokensKept(h) ==
    /\ \A t \in DOMAIN token :
         IF t \in DOMAIN token'
         THEN /\ token'[t].user = token[t].user
              /\ \/ token'[t].revoked = token[t].revoked
                 \/ token'[t].revoked = now /\ (Revokes(request[h].todo, t) \/ Removes(h, token[t].user))
         ELSE Removes(h, token[t].user)
    /\ \A t \in DOMAIN token' : t \in DOMAIN token \/ (t > lastKey /\ token'[t].revoked = Never)

(* A code that is spent stays spent.                                       *)
OtpsKept(h) ==
    /\ DOMAIN otp \subseteq DOMAIN otp'
    /\ \A c \in DOMAIN otp : ~otp[c].unused \/ Spends(request[h].todo, c) => ~otp'[c].unused \/ Spends(request'[h].todo, c)

KeptTables(h) ==
    /\ Tables' /\ lastKey' >= lastKey /\ now' = now
    /\ UsersKept /\ ProfilesKept /\ TokensKept(h)
    /\ Valid(db)'

(* Where the call goes on.                                                 *)
GoesOn(h) ==
    /\ request'[h].what = request[h].what
    /\ IsRequest(request[h])'
    /\ AllLate(request[h].todo) => AllLate(request'[h].todo) /\ request'[h].user = request[h].user
    /\ request[h].what \in Deletions => request'[h].user = request[h].user
    /\ \A t : Revokes(request'[h].todo, t) => Revokes(request[h].todo, t)
    /\ \A c : ~ Spends(request'[h].todo, c)
    /\ \/ request'[h].token = request[h].token
       \/ /\ request'[h].token > lastKey /\ AllLate(request'[h].todo)
          /\ request'[h].token \in DOMAIN token'
          /\ token'[request'[h].token] = [user |-> request'[h].user, revoked |-> Never]
    /\ \/ request'[h].code = request[h].code
       \/ /\ AllLate(request'[h].todo)
          /\ request'[h].user \in DOMAIN user' => user'[request'[h].user].code = request'[h].code
    /\ WillEnrol(request[h].todo) =>
         \/ WillEnrol(request'[h].todo)
         \/ AllLate(request'[h].todo) /\ (request'[h].user \in DOMAIN user' => request'[h].user \in DOMAIN profile')

(* A step of a call that is not its end.                                   *)
CallRuns(h) ==
    /\ request[h] # NoRequest /\ request[h].todo # <<>>
    /\ KeptTables(h) /\ OtpsKept(h) /\ OthersStay(h)
    /\ request'[h] = NoRequest \/ GoesOn(h)
    /\ device' = device /\ cuts' = cuts

(* A free slot.                                                            *)
LEMMA NoRequestIs ==
    /\ NoRequest = [what |-> "idle", at |-> None, user |-> None, token |-> None, code |-> None, todo |-> <<>>]
    /\ NoRequest.what = "idle" /\ NoRequest.todo = <<>> /\ NoRequest.token = None /\ NoRequest.code = None
    /\ NoRequest.user = None /\ Len(NoRequest.todo) = 0
BY DEF NoRequest

(* An empty list does nothing.                                             *)
LEMMA NothingToDo ==
    ASSUME NEW s, Len(s) = 0
    PROVE  /\ AllLate(s) /\ ~ WillEnrol(s) /\ (\A t : ~ Revokes(s, t)) /\ (\A c : ~ Spends(s, c))
BY DEF AllLate, WillEnrol, Revokes, Spends

(* A free slot has a list.                                                 *)
LEMMA NoRequestList == IsList("idle", NoRequest.todo)
<1>1. <<>> \in Seq(Queries) /\ Len(<<>>) = 0
    OBVIOUS
<1>. QED
    BY <1>1, NoRequestIs DEF IsList, Deletions

(* A free slot has the shape of a call.                                    *)
LEMMA NoRequestFits ==
    ASSUME Tables
    PROVE  IsRequest(NoRequest)
BY NoRequestIs, NoRequestList DEF IsRequest, Tables, None

(* A call that ends frees its slot, and only that.                         *)
LEMMA EndsIs ==
    ASSUME Shapes, NEW h \in Slots, Ends(h)
    PROVE  OthersStay(h) /\ request'[h] = NoRequest
BY DEF Shapes, Ends, OthersStay

(* A call that goes on changes its slot, and only that.                    *)
LEMMA GoesAsIs ==
    ASSUME Shapes, NEW h \in Slots, NEW c, GoesAs(h, c)
    PROVE  OthersStay(h) /\ request'[h] = c
BY DEF Shapes, GoesAs, OthersStay

(* What is known of a call that has something to do.                       *)
LEMMA BusyIs ==
    ASSUME Shapes, NEW h \in Slots, Busy(h)
    PROVE  /\ IsRequest(request[h]) /\ IsList(request[h].what, request[h].todo) /\ request[h].todo # <<>>
           /\ request[h] # NoRequest
           /\ Doing(h) \in Queries /\ Doing(h) = request[h].todo[1]
           /\ IsList(request[h].what, Rest(h)) /\ 1 \in 1 .. Len(request[h].todo)
           /\ request[h].what \in Deletions => Doing(h).do \in Removal
           /\ request[h].what \notin Deletions => Doing(h).do \notin {"revokeAll", "deleteUser"}
<1>1. IsRequest(request[h]) /\ IsList(request[h].what, request[h].todo) /\ request[h].todo # <<>>
    BY DEF Shapes, IsRequest, Busy
<1>2. request[h] # NoRequest
    BY <1>1, NoRequestIs
<1>3. /\ IsList(request[h].what, Rest(h)) /\ Doing(h) \in Queries /\ Doing(h) = request[h].todo[1]
      /\ 1 \in 1 .. Len(request[h].todo)
    BY <1>1, TailOf DEF Rest, Doing
<1>. QED
    BY <1>1, <1>2, <1>3 DEF IsList

(* A call with another list.                                               *)
LEMMA AsRequest ==
    ASSUME Shapes, NEW h \in Slots, NEW s
    PROVE  [request[h] EXCEPT !.todo = s] =
                [what |-> request[h].what, at |-> request[h].at, user |-> request[h].user,
                 token |-> request[h].token, code |-> request[h].code, todo |-> s]
<1>1. PICK r : r = request[h]
    OBVIOUS
<1>2. r = [what |-> r.what, at |-> r.at, user |-> r.user, token |-> r.token, code |-> r.code, todo |-> r.todo]
    BY <1>1 DEF Shapes, IsRequest
<1>3. [r EXCEPT !.todo = s] =
        [what |-> r.what, at |-> r.at, user |-> r.user, token |-> r.token, code |-> r.code, todo |-> s]
    BY <1>2
<1>. QED
    BY <1>1, <1>3

(* Nothing in the tables changes.                                          *)
LEMMA SameTables ==
    ASSUME Shapes, Valid(db), NEW h \in Slots, UNCHANGED <<db, device, now, lastKey, cuts>>
    PROVE  KeptTables(h) /\ (\A c \in DOMAIN otp : otp'[c] = otp[c]) /\ DOMAIN otp' = DOMAIN otp
<1>1. user' = user /\ profile' = profile /\ token' = token /\ otp' = otp /\ documents' = documents /\ address' = address
    BY DEF user, profile, token, otp, documents, address
<1>2. Tables'
    BY <1>1 DEF Shapes, Tables
<1>3. lastKey' >= lastKey
    BY DEF Shapes, Tables
<1>4. Valid(db)'
  <2>1. PICK d : d = db
      OBVIOUS
  <2>2. Valid(d) /\ db' = d
      BY <2>1
  <2>. QED
      BY <2>2 DEF Valid
<1>. QED
    BY <1>1, <1>2, <1>3, <1>4 DEF KeptTables, UsersKept, ProfilesKept, TokensKept

-----------------------------------------------------------------------------
(* What queries do to the tables.                                          *)

(* A query carries what its kind needs.                                    *)
LEMMA AQueryIs ==
    ASSUME NEW q \in Queries
    PROVE  /\ q.do = "newUser" => q.row \in UserRows
           /\ q.do = "setUser" => q.fields \in Fields
           /\ q.do = "send" => q.value \in OtpRows
           /\ q.do \in {"miss", "readCode"} => q.value \in Nat
           /\ q.do \in {"revoke", "spend", "miss"} => q.id \in Nat
           /\ q.do = "draw" => q.left \in Nat
           /\ q.do \in {"findOrCreate", "findUser"} => q.id \in Phones /\ q.value \in RoleNames
BY DEF Queries, Simple

(* An edited row is a row with the same code.                              *)
LEMMA WrittenIs ==
    ASSUME NEW r \in UserRows, NEW f \in Fields
    PROVE  Written(r, f) \in UserRows /\ Written(r, f).code = r.code
<1>1. r = [phone |-> r.phone, role |-> r.role, active |-> r.active, password |-> r.password,
           code |-> r.code, referrer |-> r.referrer]
    BY DEF UserRows
<1>2. PICK p, o, a, w :
        /\ p = IF "phone" \in DOMAIN f THEN f.phone ELSE r.phone
        /\ o = IF "role" \in DOMAIN f THEN f.role ELSE r.role
        /\ a = IF "active" \in DOMAIN f THEN f.active ELSE r.active
        /\ w = IF "password" \in DOMAIN f THEN f.password ELSE r.password
    OBVIOUS
<1>3. /\ p \in Phones \cup {None} /\ o \in RoleNames /\ a \in BOOLEAN /\ w \in BOOLEAN
      /\ r.code \in Codes \cup {None} /\ r.referrer \in Nat
  <2>1. /\ "phone" \in DOMAIN f => f.phone \in Phones \cup {None}
        /\ "role" \in DOMAIN f => f.role \in RoleNames
        /\ "active" \in DOMAIN f => f.active \in BOOLEAN
        /\ "password" \in DOMAIN f => f.password \in BOOLEAN
    <3>1. CASE f \in [password : {TRUE}] \cup [active : {FALSE}, phone : {None}]
        BY <3>1
    <3>2. CASE f \in [phone : Phones \cup {None}, role : RoleNames, active : BOOLEAN]
        BY <3>2
    <3>3. CASE f \in Changes
      <4>1. Roles \subseteq RoleNames
          BY DEF RoleNames
      <4>2. CASE \E x \in Phones : f = [phone |-> x]
          BY <4>2
      <4>3. CASE \E x \in Roles : f = [role |-> x]
          BY <4>1, <4>3
      <4>4. CASE \E on \in BOOLEAN : f = [active |-> on]
          BY <4>4
      <4>. QED
          BY <3>3, <4>2, <4>3, <4>4 DEF Changes
    <3>. QED
        BY <3>1, <3>2, <3>3 DEF Fields
  <2>. QED
      BY <1>2, <2>1 DEF UserRows
<1>4. Written(r, f) = [phone |-> p, role |-> o, active |-> a, password |-> w, code |-> r.code, referrer |-> r.referrer]
    BY <1>2 DEF Written
<1>. QED
    BY <1>3, <1>4 DEF UserRows

(* The users after a query: those there were, with their codes, and at     *)
(* most a new one.                                                         *)
LEMMA UsersAre ==
    ASSUME Tables, NEW q \in Queries, NEW u, NEW id, id = lastKey + 1, NEW U, U = UsersAfter(q, u, id)
    PROVE  /\ U \in [DOMAIN U -> UserRows] /\ DOMAIN U \subseteq DOMAIN user \cup {id}
           /\ \A w \in DOMAIN U : w = id \/ (w \in DOMAIN user /\ U[w].code = user[w].code)
           /\ q.do # "newUser" => DOMAIN U \subseteq DOMAIN user
           /\ q.do = "deleteUser" => u \notin DOMAIN U
           /\ q.do \notin {"newUser", "setUser", "deleteUser"} => U = user
<1>. DEFINE Goal ==
           /\ U \in [DOMAIN U -> UserRows] /\ DOMAIN U \subseteq DOMAIN user \cup {id}
           /\ \A w \in DOMAIN U : w = id \/ (w \in DOMAIN user /\ U[w].code = user[w].code)
           /\ q.do # "newUser" => DOMAIN U \subseteq DOMAIN user
           /\ q.do = "deleteUser" => u \notin DOMAIN U
           /\ q.do \notin {"newUser", "setUser", "deleteUser"} => U = user
<1>0. user \in [DOMAIN user -> UserRows] /\ id \notin DOMAIN user
    BY DEF Tables
<1>1. CASE q.do = "newUser"
  <2>1. q.row \in UserRows
      BY <1>1, AQueryIs
  <2>2. U = [i \in DOMAIN user \cup {id} |-> IF i = id THEN q.row ELSE user[i]]
      BY <1>1 DEF UsersAfter, WithRow
  <2>. QED
      BY <1>0, <1>1, <2>1, <2>2
<1>2. CASE q.do = "setUser"
  <2>1. q.fields \in Fields
      BY <1>2, AQueryIs
  <2>2. U = [w \in DOMAIN user |-> IF w = u THEN Written(user[w], q.fields) ELSE user[w]]
      BY <1>2 DEF UsersAfter
  <2>3. \A w \in DOMAIN user : Written(user[w], q.fields) \in UserRows /\ Written(user[w], q.fields).code = user[w].code
      BY <1>0, <2>1, WrittenIs
  <2>4. DOMAIN U = DOMAIN user /\ \A w \in DOMAIN user : U[w] \in UserRows /\ U[w].code = user[w].code
      BY <1>0, <2>2, <2>3
  <2>. QED
      BY <1>2, <2>2, <2>4
<1>3. CASE q.do = "deleteUser"
  <2>1. U = [w \in DOMAIN user \ {u} |-> IF user[w].referrer = u THEN [user[w] EXCEPT !.referrer = None] ELSE user[w]]
      BY <1>3 DEF UsersAfter
  <2>2. \A r \in UserRows : [r EXCEPT !.referrer = None] \in UserRows /\ [r EXCEPT !.referrer = None].code = r.code
      BY DEF UserRows, None
  <2>3. DOMAIN U = DOMAIN user \ {u} /\ \A w \in DOMAIN U : U[w] \in UserRows /\ U[w].code = user[w].code
      BY <1>0, <2>1, <2>2
  <2>. QED
      BY <1>3, <2>1, <2>3
<1>4. CASE q.do \notin {"newUser", "setUser", "deleteUser"}
  <2>1. U = user
      BY <1>4 DEF UsersAfter
  <2>. QED
      BY <1>0, <1>4, <2>1
<1>. QED
    BY <1>1, <1>2, <1>3, <1>4

(* The profiles after a query: only deleting the user takes one away.      *)
LEMMA ProfilesAre ==
    ASSUME NEW q, NEW u, NEW P, P = ProfilesAfter(q, u)
    PROVE  /\ \A w \in DOMAIN profile : w \in DOMAIN P \/ (w = u /\ q.do = "deleteUser")
           /\ q.do = "addProfile" => u \in DOMAIN P
           /\ q.do \notin {"addProfile", "close", "deleteUser"} => P = profile
<1>1. CASE q.do = "addProfile"
    BY <1>1 DEF ProfilesAfter, WithRow
<1>2. CASE q.do = "close"
    BY <1>2 DEF ProfilesAfter
<1>3. CASE q.do = "deleteUser"
    BY <1>3 DEF ProfilesAfter, Rows
<1>4. CASE q.do \notin {"addProfile", "close", "deleteUser"}
    BY <1>4 DEF ProfilesAfter
<1>. QED
    BY <1>1, <1>2, <1>3, <1>4

(* A revoked token is of the same user.                                    *)
LEMMA RevokedIs ==
    ASSUME Tables, NEW t \in DOMAIN token
    PROVE  /\ Revoked(t) \in [user : Nat, revoked : Nat \cup {Never}]
           /\ Revoked(t).user = token[t].user /\ Revoked(t).revoked = now
BY DEF Revoked, Tables

(* The tokens after a query: the same users', a new one, and some revoked  *)
(* or gone with their user.                                                *)
LEMMA TokensAre ==
    ASSUME Tables, NEW q \in Queries, NEW u \in Nat, NEW id, id = lastKey + 1, NEW T, T = TokensAfter(q, u, id)
    PROVE  /\ T \in [DOMAIN T -> [user : Nat, revoked : Nat \cup {Never}]]
           /\ DOMAIN T \subseteq DOMAIN token \cup {id}
           /\ q.do # "issue" => DOMAIN T \subseteq DOMAIN token
           /\ q.do = "issue" => id \in DOMAIN T /\ T[id] = [user |-> u, revoked |-> Never]
           /\ id \in DOMAIN T => T[id].revoked = Never
           /\ \A t \in DOMAIN token :
                IF t \in DOMAIN T
                THEN /\ T[t].user = token[t].user
                     /\ \/ T[t].revoked = token[t].revoked
                        \/ /\ T[t].revoked = now
                           /\ (q.do = "revoke" /\ q.id = t) \/ (q.do = "revokeAll" /\ token[t].user = u)
                ELSE q.do = "deleteUser" /\ token[t].user = u
           /\ q.do \notin {"issue", "revoke", "revokeAll", "deleteUser"} => T = token
<1>0. token \in [DOMAIN token -> [user : Nat, revoked : Nat \cup {Never}]] /\ id \notin DOMAIN token
    BY DEF Tables
<1>1. CASE q.do = "issue"
  <2>1. T = [i \in DOMAIN token \cup {id} |-> IF i = id THEN [user |-> u, revoked |-> Never] ELSE token[i]]
      BY <1>1 DEF TokensAfter, WithRow
  <2>. QED
      BY <1>0, <1>1, <2>1
<1>2. CASE q.do = "revoke"
  <2>1. T = [t \in DOMAIN token |-> IF t = q.id THEN Revoked(t) ELSE token[t]]
      BY <1>2 DEF TokensAfter
  <2>. QED
      BY <1>0, <1>2, <2>1, RevokedIs
<1>3. CASE q.do = "revokeAll"
  <2>1. T = [t \in DOMAIN token |-> IF token[t].user = u THEN Revoked(t) ELSE token[t]]
      BY <1>3 DEF TokensAfter
  <2>. QED
      BY <1>0, <1>3, <2>1, RevokedIs
<1>4. CASE q.do = "deleteUser"
  <2>1. T = [t \in {t \in DOMAIN token : token[t].user # u} |-> token[t]]
      BY <1>4 DEF TokensAfter, Rows
  <2>. QED
      BY <1>0, <1>4, <2>1
<1>5. CASE q.do \notin {"issue", "revoke", "revokeAll", "deleteUser"}
  <2>1. T = token
      BY <1>5 DEF TokensAfter
  <2>. QED
      BY <1>0, <1>5, <2>1
<1>. QED
    BY <1>1, <1>2, <1>3, <1>4, <1>5

(* The codes after a query: those that were used stay used.                *)
LEMMA OtpsAre ==
    ASSUME Tables, NEW q \in Queries, NEW id, id = lastKey + 1, NEW O, O = OtpsAfter(q, id)
    PROVE  /\ O \in [DOMAIN O -> OtpRows] /\ DOMAIN O \subseteq DOMAIN otp \cup {id}
           /\ q.do # "send" => DOMAIN O \subseteq DOMAIN otp
           /\ DOMAIN otp \subseteq DOMAIN O
           /\ \A c \in DOMAIN otp : ~otp[c].unused \/ (q.do = "spend" /\ q.id = c) => ~O[c].unused
           /\ q.do \notin {"send", "miss", "spend"} => O = otp
<1>0. otp \in [DOMAIN otp -> OtpRows] /\ id \notin DOMAIN otp
    BY DEF Tables
<1>1. CASE q.do = "send"
  <2>1. O = [i \in DOMAIN otp \cup {id} |-> IF i = id THEN q.value ELSE otp[i]] /\ q.value \in OtpRows
      BY <1>1, AQueryIs DEF OtpsAfter, WithRow
  <2>. QED
      BY <1>0, <1>1, <2>1
<1>2. CASE q.do = "miss"
  <2>1. O = [c \in DOMAIN otp |-> IF c = q.id THEN [otp[c] EXCEPT !.tries = q.value] ELSE otp[c]] /\ q.value \in Nat
      BY <1>2, AQueryIs DEF OtpsAfter
  <2>2. \A c \in DOMAIN otp : [otp[c] EXCEPT !.tries = q.value] \in OtpRows /\ [otp[c] EXCEPT !.tries = q.value].unused = otp[c].unused
      BY <1>0, <2>1 DEF OtpRows
  <2>. QED
      BY <1>0, <1>2, <2>1, <2>2
<1>3. CASE q.do = "spend"
  <2>1. O = [c \in DOMAIN otp |-> IF c = q.id THEN [otp[c] EXCEPT !.unused = FALSE] ELSE otp[c]]
      BY <1>3 DEF OtpsAfter
  <2>2. \A c \in DOMAIN otp : [otp[c] EXCEPT !.unused = FALSE] \in OtpRows /\ [otp[c] EXCEPT !.unused = FALSE].unused = FALSE
      BY <1>0 DEF OtpRows
  <2>. QED
      BY <1>0, <1>3, <2>1, <2>2
<1>4. CASE q.do \notin {"send", "miss", "spend"}
  <2>1. O = otp
      BY <1>4 DEF OtpsAfter
  <2>. QED
      BY <1>0, <1>4, <2>1
<1>. QED
    BY <1>1, <1>2, <1>3, <1>4

(* The addresses after a query.                                            *)
LEMMA AddressesAre ==
    ASSUME NEW q \in Queries, NEW u, NEW id, NEW X, X = AddressesAfter(q, u, id)
    PROVE  DOMAIN X \subseteq DOMAIN address \cup {id} /\ (q.do # "addAddress" => DOMAIN X \subseteq DOMAIN address)
<1>1. CASE q.do = "clearDefault"
    BY <1>1 DEF AddressesAfter
<1>2. CASE q.do = "addAddress"
    BY <1>2 DEF AddressesAfter, WithRow
<1>3. CASE q.do = "setAddress"
    BY <1>3 DEF AddressesAfter
<1>4. CASE q.do = "dropAddress"
    BY <1>4 DEF AddressesAfter, Rows
<1>5. CASE q.do = "deleteUser"
    BY <1>5 DEF AddressesAfter, Rows
<1>6. CASE q.do \notin {"clearDefault", "addAddress", "setAddress", "dropAddress", "deleteUser"}
    BY <1>6 DEF AddressesAfter
<1>. QED
    BY <1>1, <1>2, <1>3, <1>4, <1>5, <1>6

-----------------------------------------------------------------------------
(* The steps of calls.                                                     *)

(* What a query keeps of the tables.                                       *)
LEMMA QueryTables ==
    ASSUME Shapes, NEW h \in Slots, Query(h)
    PROVE  /\ KeptTables(h) /\ device' = device /\ cuts' = cuts
           /\ \A c \in DOMAIN otp :
                ~otp[c].unused \/ (Doing(h).do = "spend" /\ Doing(h).id = c) => ~otp'[c].unused
           /\ DOMAIN otp \subseteq DOMAIN otp'
           /\ Doing(h).do = "issue" =>
                /\ lastKey + 1 \in DOMAIN token'
                /\ token'[lastKey + 1] = [user |-> request[h].user, revoked |-> Never]
           /\ Doing(h).do = "addProfile" => request[h].user \in DOMAIN profile'
           /\ lastKey' = IF Doing(h).do \in Numbered THEN lastKey + 1 ELSE lastKey
<1>1. PICK q, u, id : q = Doing(h) /\ u = request[h].user /\ id = lastKey + 1
    OBVIOUS
<1>2. q \in Queries /\ Tables /\ request[h].user \in 0 .. lastKey /\ lastKey \in Nat /\ u \in Nat
    BY <1>1, BusyIs DEF Query, Shapes, IsRequest, Tables
<1>3. /\ db' = After(q, u, id) /\ Valid(db')
      /\ lastKey' = IF q.do \in Numbered THEN id ELSE lastKey
      /\ UNCHANGED <<device, now, cuts>>
    BY <1>1 DEF Query
<1>4. PICK U, P, T, O, X, D :
        /\ U = UsersAfter(q, u, id) /\ P = ProfilesAfter(q, u) /\ T = TokensAfter(q, u, id)
        /\ O = OtpsAfter(q, id) /\ X = AddressesAfter(q, u, id)
        /\ D = IF q.do \in {"dropDocuments", "deleteUser"} THEN documents \ {u} ELSE documents
    OBVIOUS
<1>5. db' = [user |-> U, profile |-> P, documents |-> D, token |-> T, otp |-> O, address |-> X]
    BY <1>3, <1>4 DEF After
<1>6. /\ user' = U /\ profile' = P /\ token' = T /\ otp' = O /\ address' = X /\ documents' = D
    BY <1>5 DEF user, profile, documents, token, otp, address
<1>7. /\ U \in [DOMAIN U -> UserRows] /\ DOMAIN U \subseteq DOMAIN user \cup {id}
      /\ \A w \in DOMAIN U : w = id \/ (w \in DOMAIN user /\ U[w].code = user[w].code)
      /\ q.do # "newUser" => DOMAIN U \subseteq DOMAIN user
      /\ q.do = "deleteUser" => u \notin DOMAIN U
    BY <1>1, <1>2, <1>4, UsersAre
<1>8. /\ \A w \in DOMAIN profile : w \in DOMAIN P \/ (w = u /\ q.do = "deleteUser")
      /\ q.do = "addProfile" => u \in DOMAIN P
    BY <1>4, ProfilesAre
<1>9. /\ T \in [DOMAIN T -> [user : Nat, revoked : Nat \cup {Never}]]
      /\ DOMAIN T \subseteq DOMAIN token \cup {id}
      /\ q.do # "issue" => DOMAIN T \subseteq DOMAIN token
      /\ q.do = "issue" => id \in DOMAIN T /\ T[id] = [user |-> u, revoked |-> Never]
      /\ id \in DOMAIN T => T[id].revoked = Never
      /\ \A t \in DOMAIN token :
                IF t \in DOMAIN T
                THEN /\ T[t].user = token[t].user
                     /\ \/ T[t].revoked = token[t].revoked
                        \/ /\ T[t].revoked = now
                           /\ (q.do = "revoke" /\ q.id = t) \/ (q.do = "revokeAll" /\ token[t].user = u)
                ELSE q.do = "deleteUser" /\ token[t].user = u
    BY <1>1, <1>2, <1>4, TokensAre
<1>10. /\ O \in [DOMAIN O -> OtpRows] /\ DOMAIN O \subseteq DOMAIN otp \cup {id}
       /\ q.do # "send" => DOMAIN O \subseteq DOMAIN otp
       /\ DOMAIN otp \subseteq DOMAIN O
       /\ \A c \in DOMAIN otp : ~otp[c].unused \/ (q.do = "spend" /\ q.id = c) => ~O[c].unused
    BY <1>1, <1>2, <1>4, OtpsAre
<1>11. /\ DOMAIN X \subseteq DOMAIN address \cup {id} /\ (q.do # "addAddress" => DOMAIN X \subseteq DOMAIN address)
    BY <1>2, <1>4, AddressesAre
<1>12. DOMAIN U \cup DOMAIN T \cup DOMAIN O \cup DOMAIN X \subseteq 1 .. lastKey' /\ lastKey' \in Nat /\ lastKey' >= lastKey
  <2>1. CASE q.do \in Numbered
    <3>1. lastKey' = lastKey + 1 /\ id = lastKey'
        BY <1>1, <1>3, <2>1
    <3>2. 1 .. lastKey \subseteq 1 .. lastKey' /\ id \in 1 .. lastKey'
        BY <1>2, <3>1
    <3>. QED
        BY <1>2, <1>7, <1>9, <1>10, <1>11, <3>1, <3>2 DEF Tables
  <2>2. CASE q.do \notin Numbered
    <3>1. lastKey' = lastKey
        BY <1>3, <2>2
    <3>2. q.do # "newUser" /\ q.do # "issue" /\ q.do # "send" /\ q.do # "addAddress"
        BY <2>2 DEF Numbered
    <3>. QED
        BY <1>2, <1>7, <1>9, <1>10, <1>11, <3>1, <3>2 DEF Tables
  <2>. QED
      BY <2>1, <2>2
<1>13. Tables'
    BY <1>2, <1>3, <1>5, <1>6, <1>7, <1>9, <1>10, <1>12 DEF Tables
<1>14. id > lastKey
    BY <1>1, <1>2
<1>15. UsersKept
    BY <1>6, <1>7, <1>14 DEF UsersKept
<1>16. ProfilesKept
    BY <1>6, <1>7, <1>8 DEF ProfilesKept
<1>17. TokensKept(h)
  <2>1. q.do \in {"revokeAll", "deleteUser"} => request[h].what \in Deletions
      BY <1>1, BusyIs DEF Query
  <2>2. \A t : q.do = "revoke" /\ q.id = t => Revokes(request[h].todo, t)
      BY <1>1, BusyIs DEF Query, Revokes
  <2>3. \A t \in DOMAIN token : t \in DOMAIN T =>
           T[t].revoked = token[t].revoked \/ (T[t].revoked = now /\ (Revokes(request[h].todo, t) \/ Removes(h, token[t].user)))
      BY <1>1, <1>9, <2>1, <2>2 DEF Removes
  <2>4. \A t \in DOMAIN token : t \notin DOMAIN T => Removes(h, token[t].user)
      BY <1>1, <1>9, <2>1 DEF Removes
  <2>. QED
      BY <1>6, <1>9, <1>14, <2>3, <2>4 DEF TokensKept
<1>18. Valid(db)'
    BY <1>3
<1>19. KeptTables(h)
    BY <1>3, <1>12, <1>13, <1>15, <1>16, <1>17, <1>18 DEF KeptTables
<1>. QED
    BY <1>1, <1>3, <1>6, <1>8, <1>9, <1>10, <1>19

(* A query is a step of its call.                                          *)
LEMMA QueryRuns ==
    ASSUME Shapes, NEW h \in Slots, Query(h)
    PROVE  CallRuns(h)
<1>1. PICK q, c, n, r : q = Doing(h) /\ c = request[h] /\ n = request'[h] /\ r = Rest(h)
    OBVIOUS
<1>2. /\ IsRequest(c) /\ IsList(c.what, c.todo) /\ c.todo # <<>> /\ c # NoRequest
      /\ q \in Queries /\ q = Head(c.todo) /\ r = Tail(c.todo) /\ IsList(c.what, r)
    BY <1>1, BusyIs DEF Query, Doing, Rest
<1>3. /\ KeptTables(h) /\ device' = device /\ cuts' = cuts
      /\ \A x \in DOMAIN otp : ~otp[x].unused \/ (q.do = "spend" /\ q.id = x) => ~otp'[x].unused
      /\ DOMAIN otp \subseteq DOMAIN otp'
      /\ q.do = "issue" =>
           lastKey + 1 \in DOMAIN token' /\ token'[lastKey + 1] = [user |-> c.user, revoked |-> Never]
      /\ q.do = "addProfile" => c.user \in DOMAIN profile'
      /\ lastKey' = IF q.do \in Numbered THEN lastKey + 1 ELSE lastKey
    BY <1>1, QueryTables
<1>4. /\ AllLate(c.todo) => AllLate(r) /\ q.do \in Late
      /\ q.do \in Late => AllLate(c.todo)
      /\ \A t : Revokes(r, t) => Revokes(c.todo, t)
      /\ \A x : ~ Spends(r, x)
      /\ \A x : Spends(c.todo, x) => q.do = "spend" /\ q.id = x
      /\ WillEnrol(c.todo) => WillEnrol(r) \/ q.do \in {"findProfile", "addProfile"}
    BY <1>2, TailHas
<1>5. GoesAs(h, CASE q.do = "newUser" -> [Left(h) EXCEPT !.user = lastKey + 1]
                  [] q.do = "issue" -> [Left(h) EXCEPT !.token = lastKey + 1]
                  [] OTHER -> Left(h))
    BY <1>1 DEF Query
<1>6. /\ OthersStay(h)
      /\ n = CASE q.do = "newUser" -> [Left(h) EXCEPT !.user = lastKey + 1]
                  [] q.do = "issue" -> [Left(h) EXCEPT !.token = lastKey + 1]
                  [] OTHER -> Left(h)
    BY <1>1, <1>5, GoesAsIs
<1>7. n = [what |-> c.what, at |-> c.at, user |-> IF q.do = "newUser" THEN lastKey + 1 ELSE c.user,
           token |-> IF q.do = "issue" THEN lastKey + 1 ELSE c.token, code |-> c.code, todo |-> r]
  <2>1. PICK L : L = Left(h)
      OBVIOUS
  <2>2. L = [what |-> c.what, at |-> c.at, user |-> c.user, token |-> c.token, code |-> c.code, todo |-> r]
      BY <1>1, <2>1, AsRequest DEF Left
  <2>3. CASE q.do = "newUser"
    <3>1. n = [L EXCEPT !.user = lastKey + 1]
        BY <1>6, <2>1, <2>3
    <3>2. n = [what |-> c.what, at |-> c.at, user |-> lastKey + 1, token |-> c.token, code |-> c.code, todo |-> r]
        BY <2>2, <3>1
    <3>. QED
        BY <2>3, <3>2
  <2>4. CASE q.do = "issue"
    <3>1. n = [L EXCEPT !.token = lastKey + 1]
        BY <1>6, <2>1, <2>4
    <3>2. n = [what |-> c.what, at |-> c.at, user |-> c.user, token |-> lastKey + 1, code |-> c.code, todo |-> r]
        BY <2>2, <3>1
    <3>. QED
        BY <2>4, <3>2
  <2>5. CASE q.do # "newUser" /\ q.do # "issue"
    <3>1. n = L
        BY <1>6, <2>1, <2>5
    <3>. QED
        BY <2>2, <2>5, <3>1
  <2>. QED
      BY <2>3, <2>4, <2>5
<1>8. PICK u, t : u = n.user /\ t = n.token
    OBVIOUS
<1>9. /\ u = IF q.do = "newUser" THEN lastKey + 1 ELSE c.user
      /\ t = IF q.do = "issue" THEN lastKey + 1 ELSE c.token
      /\ n = [what |-> c.what, at |-> c.at, user |-> u, token |-> t, code |-> c.code, todo |-> r]
      /\ n.what = c.what /\ n.at = c.at /\ n.code = c.code /\ n.todo = r
    BY <1>7, <1>8
<1>10. lastKey \in Nat /\ c.user \in 0 .. lastKey /\ c.token \in 0 .. lastKey
    BY <1>1, <1>2 DEF Shapes, Tables, IsRequest
<1>11. /\ q.do \in {"newUser", "issue"} => lastKey' = lastKey + 1
       /\ lastKey' \in Nat /\ lastKey' >= lastKey
    BY <1>3, <1>10 DEF Numbered
<1>12. u \in 0 .. lastKey' /\ t \in 0 .. lastKey'
    BY <1>9, <1>10, <1>11
<1>13. IsRequest(request[h])'
    BY <1>1, <1>2, <1>8, <1>9, <1>12 DEF IsRequest, IsList
<1>14. q.do = "newUser" => ~ AllLate(c.todo) /\ c.what \notin Deletions
    BY <1>2, <1>4 DEF Late, IsList, Removal, AllLate
<1>15. /\ AllLate(c.todo) => AllLate(r) /\ u = c.user
       /\ c.what \in Deletions => u = c.user
    BY <1>4, <1>9, <1>14
<1>16. t = c.token \/ /\ t > lastKey /\ AllLate(r) /\ t \in DOMAIN token'
                      /\ token'[t] = [user |-> u, revoked |-> Never]
    BY <1>3, <1>4, <1>9, <1>10 DEF Late
<1>17. WillEnrol(c.todo) => WillEnrol(r) \/ (AllLate(r) /\ (u \in DOMAIN user' => u \in DOMAIN profile'))
  <2>1. q.do # "findProfile"
      BY <1>1 DEF Query, Plain
  <2>2. CASE q.do = "addProfile"
      BY <1>3, <1>4, <1>9, <2>2 DEF Late
  <2>. QED
      BY <1>4, <2>1, <2>2
<1>18. GoesOn(h)
    BY <1>1, <1>4, <1>8, <1>9, <1>13, <1>15, <1>16, <1>17 DEF GoesOn
<1>19. OtpsKept(h)
    BY <1>1, <1>3, <1>4 DEF OtpsKept
<1>. QED
    BY <1>1, <1>2, <1>3, <1>6, <1>18, <1>19 DEF CallRuns

(* A call that goes on to its next query, with a user or a code it found.  *)
LEMMA PassesOn ==
    ASSUME Shapes, NEW h \in Slots, Busy(h), lastKey' = lastKey, NEW u \in 0 .. lastKey, NEW code,
           request'[h] = [what |-> request[h].what, at |-> request[h].at, user |-> u,
                          token |-> request[h].token, code |-> code, todo |-> Rest(h)],
           u = request[h].user \/ Doing(h).do \notin Late \cup Removal,
           \/ code = request[h].code
           \/ Doing(h).do \in Late /\ (u \in DOMAIN user' => user'[u].code = code),
           Doing(h).do # "addProfile",
           Doing(h).do = "findProfile" => u \in DOMAIN profile'
    PROVE  GoesOn(h)
<1>1. PICK q, c, n, r : q = Doing(h) /\ c = request[h] /\ n = request'[h] /\ r = Rest(h)
    OBVIOUS
<1>2. /\ IsRequest(c) /\ IsList(c.what, c.todo) /\ c.todo # <<>> /\ c # NoRequest
      /\ q \in Queries /\ q = Head(c.todo) /\ r = Tail(c.todo) /\ IsList(c.what, r)
      /\ c.what \in Deletions => q.do \in Removal
    BY <1>1, BusyIs DEF Doing, Rest
<1>3. /\ AllLate(c.todo) => AllLate(r) /\ q.do \in Late
      /\ q.do \in Late => AllLate(c.todo)
      /\ \A t : Revokes(r, t) => Revokes(c.todo, t)
      /\ \A x : ~ Spends(r, x)
      /\ WillEnrol(c.todo) => WillEnrol(r) \/ q.do \in {"findProfile", "addProfile"}
    BY <1>2, TailHas
<1>4. /\ n = [what |-> c.what, at |-> c.at, user |-> u, token |-> c.token, code |-> code, todo |-> r]
      /\ n.what = c.what /\ n.user = u /\ n.token = c.token /\ n.code = code /\ n.todo = r
    BY <1>1
<1>5. IsRequest(request[h])'
    BY <1>1, <1>2, <1>4 DEF IsRequest, IsList
<1>6. /\ AllLate(c.todo) => AllLate(r) /\ u = c.user
      /\ c.what \in Deletions => u = c.user
    BY <1>1, <1>2, <1>3
<1>7. n.code = c.code \/ (AllLate(r) /\ (u \in DOMAIN user' => user'[u].code = code))
    BY <1>1, <1>3, <1>4
<1>8. WillEnrol(c.todo) => WillEnrol(r) \/ (AllLate(r) /\ (u \in DOMAIN user' => u \in DOMAIN profile'))
    BY <1>1, <1>3 DEF Late
<1>. QED
    BY <1>1, <1>3, <1>4, <1>5, <1>6, <1>7, <1>8 DEF GoesOn

(* A call that has another query to do instead of the one it looked at.    *)
LEMMA Replaces ==
    ASSUME Shapes, NEW h \in Slots, Busy(h), lastKey' = lastKey, NEW q \in Queries,
           q.do \in Late <=> Doing(h).do \in Late, q.do \notin {"revoke", "spend"},
           request[h].what \in Deletions => q.do \in Removal,
           request[h].what \notin Deletions => q.do \notin {"revokeAll", "deleteUser"},
           Doing(h).do \in {"findProfile", "addProfile"} => q.do = "addProfile",
           GoesTo(h, <<q>> \o Rest(h))
    PROVE  OthersStay(h) /\ GoesOn(h)
<1>1. PICK c, n, r : c = request[h] /\ n = request'[h] /\ r = <<q>> \o Rest(h)
    OBVIOUS
<1>2. /\ IsRequest(c) /\ IsList(c.what, c.todo) /\ c.todo # <<>>
      /\ Doing(h) = Head(c.todo) /\ Rest(h) = Tail(c.todo) /\ Doing(h) = c.todo[1]
    BY <1>1, BusyIs DEF Doing, Rest
<1>3. /\ IsList(c.what, r)
      /\ q.do \in Late => AllLate(r) /\ AllLate(c.todo)
      /\ \A t : Revokes(r, t) => Revokes(c.todo, t)
      /\ \A x : ~ Spends(r, x)
      /\ WillEnrol(c.todo) => WillEnrol(r) \/ Doing(h).do \in {"findProfile", "addProfile"}
      /\ q.do = "addProfile" => WillEnrol(r)
    BY <1>1, <1>2, InsteadHas
<1>4. OthersStay(h) /\ n = [request[h] EXCEPT !.todo = r]
    BY <1>1, GoesAsIs DEF GoesTo
<1>5. /\ n = [what |-> c.what, at |-> c.at, user |-> c.user, token |-> c.token, code |-> c.code, todo |-> r]
      /\ n.what = c.what /\ n.user = c.user /\ n.token = c.token /\ n.code = c.code /\ n.todo = r
    BY <1>1, <1>4, AsRequest
<1>6. IsRequest(request[h])'
    BY <1>1, <1>2, <1>3, <1>5 DEF IsRequest, IsList
<1>7. AllLate(c.todo) => AllLate(r)
  <2>1. ASSUME AllLate(c.todo) PROVE q.do \in Late
      BY <1>2, <2>1, TailHas
  <2>. QED
      BY <1>3, <2>1
<1>. QED
    BY <1>1, <1>3, <1>4, <1>5, <1>6, <1>7 DEF GoesOn

(* A set of integers with a bound has a largest one: Max returns it.       *)
LEMMA BoundedHasMax ==
    ASSUME NEW S \in SUBSET Int, S # {}, NEW b \in Int, \A x \in S : x <= b
    PROVE  Max(S) \in S
<1>1. PICK T : T = {n \in Nat : b - n \in S}
    OBVIOUS
<1>2. T \subseteq Nat /\ T # {}
  <2>1. PICK x \in S : TRUE
      OBVIOUS
  <2>2. b - x \in Nat /\ b - (b - x) = x
      BY <2>1
  <2>. QED
      BY <1>1, <2>1, <2>2
<1>3. PICK R : R = OpToRel(<, Nat)
    OBVIOUS
<1>4. IsWellFoundedOn(R, Nat)
    BY <1>3, NatLessThanWellFounded
<1>5. PICK n \in T : \A m \in T : ~ (<<m, n>> \in R)
    BY <1>2, <1>4, WFMin
<1>6. \A m \in T : ~ (m < n)
    BY <1>2, <1>3, <1>5 DEF OpToRel
<1>7. b - n \in S
    BY <1>1, <1>5
<1>8. \A y \in S : b - n >= y
  <2>1. TAKE y \in S
  <2>2. b - y \in Nat /\ b - (b - y) = y
      OBVIOUS
  <2>3. b - y \in T
      BY <1>1, <2>2
  <2>4. n \in Nat /\ ~ (b - y < n)
      BY <1>2, <1>5, <1>6, <2>3
  <2>. QED
      BY <2>2, <2>4
<1>9. \E x \in S : \A y \in S : x >= y
    BY <1>7, <1>8
<1>. QED
    BY <1>9 DEF Max

(* The newest of the rows that a call looks up is one of them.             *)
LEMMA NewestIs ==
    ASSUME Tables, NEW S \in SUBSET (1 .. lastKey)
    PROVE  /\ S # {} => NewestOf(S) \in S /\ Max(S) \in S
           /\ NewestOf(S) # None => NewestOf(S) \in S /\ S # {}
           /\ NewestOf(S) \in 0 .. lastKey
<1>0. lastKey \in Nat
    BY DEF Tables
<1>1. CASE S = {}
    BY <1>0, <1>1 DEF NewestOf, None
<1>2. CASE S # {}
  <2>1. PICK b : b = lastKey
      OBVIOUS
  <2>2. S \in SUBSET Int /\ b \in Int /\ \A x \in S : x <= b
      BY <1>0, <2>1
  <2>3. Max(S) \in S
      BY <1>2, <2>2, BoundedHasMax
  <2>4. NewestOf(S) = Max(S)
      BY <1>2 DEF NewestOf
  <2>5. PICK m : m = Max(S)
      OBVIOUS
  <2>6. m \in S
      BY <2>3, <2>5
  <2>7. m \in 0 .. lastKey
      BY <1>0, <2>6
  <2>. QED
      BY <1>2, <2>4, <2>5, <2>6, <2>7
<1>. QED
    BY <1>1, <1>2

(* The account that a call looks up is a user, if there is one.            *)
LEMMA AccountsAre ==
    ASSUME Tables, NEW p, NEW r
    PROVE  /\ AccountOf(p, r) \in 0 .. lastKey /\ ActiveAccount(p, r) \in 0 .. lastKey
           /\ AccountOf(p, r) # None => AccountOf(p, r) \in DOMAIN user
           /\ ActiveAccount(p, r) # None => ActiveAccount(p, r) \in DOMAIN user
<1>1. Holding(p, r) \in SUBSET (1 .. lastKey) /\ {u \in Holding(p, r) : user[u].active} \in SUBSET (1 .. lastKey)
    BY DEF Holding, Tables
<1>. QED
    BY <1>1, NewestIs DEF AccountOf, ActiveAccount, Holding

(* The code that a call looks up is one that can be used.                  *)
LEMMA OtpIs ==
    ASSUME Tables, NEW p, NEW r, NEW purpose, Otp(p, r, purpose) # None
    PROVE  Otp(p, r, purpose) \in DOMAIN otp /\ otp[Otp(p, r, purpose)].unused
<1>1. {c \in DOMAIN otp : otp[c].phone = p /\ otp[c].role = r /\ otp[c].purpose = purpose /\ otp[c].unused} \in SUBSET (1 .. lastKey)
    BY DEF Tables
<1>. QED
    BY <1>1, NewestIs DEF Otp

(* A step of a busy call that leaves the tables alone.                     *)
LEMMA QuietRuns ==
    ASSUME Shapes, Valid(db), NEW h \in Slots, Busy(h), UNCHANGED <<db, device, now, lastKey, cuts>>,
           Doing(h).do # "spend", OthersStay(h), request'[h] = NoRequest \/ GoesOn(h)
    PROVE  CallRuns(h)
<1>1. /\ KeptTables(h) /\ (\A c \in DOMAIN otp : otp'[c] = otp[c]) /\ DOMAIN otp' = DOMAIN otp
    BY SameTables
<1>2. /\ request[h] # NoRequest /\ request[h].todo # <<>>
      /\ IsList(request[h].what, request[h].todo) /\ Doing(h) = Head(request[h].todo)
    BY BusyIs DEF Doing
<1>3. \A c : ~ Spends(request[h].todo, c)
    BY <1>2, TailHas
<1>4. OtpsKept(h)
    BY <1>1, <1>3 DEF OtpsKept
<1>. QED
    BY <1>1, <1>2, <1>4 DEF CallRuns

(* Scrubbing a row is a query.                                             *)
LEMMA ScrubbedIsQuery == [do |-> "setUser", fields |-> Scrubbed] \in Queries
<1>1. Scrubbed \in Fields
    BY DEF Scrubbed, Fields
<1>. QED
    BY <1>1 DEF Queries

(* A list of one query.                                                    *)
LEMMA OneIsList ==
    ASSUME NEW what, NEW q \in Queries, q.do # "spend", what \in Deletions => q.do \in Removal,
           what \notin Deletions => q.do \notin {"revokeAll", "deleteUser"}
    PROVE  /\ IsList(what, <<q>>) /\ (AllLate(<<q>>) <=> q.do \in Late)
           /\ (\A t : Revokes(<<q>>, t) <=> q.do = "revoke" /\ q.id = t) /\ (\A c : ~ Spends(<<q>>, c))
           /\ WillEnrol(<<q>>) <=> q.do \in {"findProfile", "addProfile"}
<1>1. PICK s : s = <<q>>
    OBVIOUS
<1>2. s \in Seq(Queries) /\ Len(s) = 1 /\ s[1] = q
    BY <1>1
<1>3. 1 .. Len(s) = {1} /\ ~(1 > 1) /\ ~(1 < 1)
    BY <1>2
<1>4. IsList(what, s)
    BY <1>2, <1>3 DEF IsList
<1>5. AllLate(s) <=> q.do \in Late
    BY <1>2, <1>3 DEF AllLate
<1>6. \A t : Revokes(s, t) <=> q.do = "revoke" /\ q.id = t
    BY <1>2, <1>3 DEF Revokes
<1>7. \A c : ~ Spends(s, c)
    BY <1>2, <1>3 DEF Spends
<1>8. WillEnrol(s) <=> q.do \in {"findProfile", "addProfile"}
    BY <1>2, <1>3 DEF WillEnrol
<1>. QED
    BY <1>1, <1>4, <1>5, <1>6, <1>7, <1>8

(* Spending a code breaks no constraint.                                   *)
LEMMA SpendWorks ==
    ASSUME Valid(db), NEW q, q.do = "spend", NEW u, NEW id
    PROVE  Valid(After(q, u, id))
<1>1. /\ UsersAfter(q, u, id) = user /\ ProfilesAfter(q, u) = profile /\ TokensAfter(q, u, id) = token
      /\ AddressesAfter(q, u, id) = address
    BY DEF UsersAfter, ProfilesAfter, TokensAfter, AddressesAfter
<1>2. PICK d, e : d = db /\ e = After(q, u, id)
    OBVIOUS
<1>3. /\ e.user = d.user /\ e.profile = d.profile /\ e.documents = d.documents
      /\ e.token = d.token /\ e.address = d.address
    BY <1>1, <1>2 DEF After, user, profile, documents, token, address
<1>4. Valid(d)
    BY <1>2
<1>5. Valid(e)
    BY <1>3, <1>4 DEF Valid
<1>. QED
    BY <1>2, <1>5

(* The lists that calls begin with.                                        *)
Plan(what, s) ==
    IsList(what, s) /\ \A i \in 1 .. Len(s) : s[i].do \notin {"spend", "revoke"}

(* A plan is a list that neither spends nor revokes.                       *)
LEMMA PlanIs ==
    ASSUME NEW what, NEW s, Plan(what, s)
    PROVE  IsList(what, s) /\ (\A t : ~ Revokes(s, t)) /\ \A c : ~ Spends(s, c)
BY DEF Plan, Revokes, Spends

(* A query before a plan.                                                  *)
LEMMA ConsIsList ==
    ASSUME NEW what, NEW s, Plan(what, s), NEW q \in Queries, q.do \in Late => AllLate(s),
           what \in Deletions => q.do \in Removal,
           what \notin Deletions => q.do \notin {"revokeAll", "deleteUser"}
    PROVE  /\ IsList(what, <<q>> \o s)
           /\ (\A t : Revokes(<<q>> \o s, t) <=> q.do = "revoke" /\ q.id = t)
           /\ (\A c : Spends(<<q>> \o s, c) <=> q.do = "spend" /\ q.id = c)
           /\ WillEnrol(<<q>> \o s) <=> (q.do \in {"findProfile", "addProfile"} \/ WillEnrol(s))
           /\ AllLate(<<q>> \o s) <=> (q.do \in Late /\ AllLate(s))
           /\ q.do \notin {"spend", "revoke"} => Plan(what, <<q>> \o s)
<1>1. s \in Seq(Queries) /\ IsList(what, s) /\ \A i \in 1 .. Len(s) : s[i].do \notin {"spend", "revoke"}
    BY DEF Plan, IsList
<1>2. PICK r : r = <<q>> \o s
    OBVIOUS
<1>3. /\ r \in Seq(Queries) /\ Len(r) = Len(s) + 1 /\ r[1] = q /\ Len(s) \in Nat
      /\ \A i \in 1 .. Len(s) : r[i + 1] = s[i]
    BY <1>1, <1>2, Consing
<1>4. \A i \in 1 .. Len(r) : i = 1 \/ (i > 1 /\ i - 1 \in 1 .. Len(s) /\ r[i] = s[i - 1])
  <2>1. TAKE i \in 1 .. Len(r)
  <2>2. CASE i # 1
    <3>1. i > 1 /\ i - 1 \in 1 .. Len(s) /\ i - 1 + 1 = i
        BY <1>3, <2>2
    <3>2. r[i - 1 + 1] = s[i - 1]
        BY <1>3, <3>1
    <3>. QED
        BY <3>1, <3>2
  <2>. QED
      BY <2>2
<1>5. 1 \in 1 .. Len(r) /\ \A i \in 1 .. Len(s) : i + 1 \in 1 .. Len(r) /\ r[i + 1] = s[i]
    BY <1>3
<1>6. \A i, j \in 1 .. Len(r) : i < j /\ r[i].do \in Late => r[j].do \in Late
  <2>1. TAKE i, j \in 1 .. Len(r)
  <2>2. SUFFICES ASSUME i < j, r[i].do \in Late PROVE r[j].do \in Late
      OBVIOUS
  <2>3. j # 1 /\ j - 1 \in 1 .. Len(s) /\ r[j] = s[j - 1]
      BY <1>4, <2>2
  <2>4. CASE i = 1
      BY <1>3, <2>2, <2>3, <2>4 DEF AllLate
  <2>5. CASE i # 1
    <3>1. i - 1 \in 1 .. Len(s) /\ r[i] = s[i - 1]
        BY <1>4, <2>5
    <3>2. i - 1 < j - 1
        BY <2>2
    <3>. QED
        BY <1>1, <2>2, <2>3, <3>1, <3>2 DEF IsList
  <2>. QED
      BY <2>4, <2>5
<1>7. \A i \in 1 .. Len(r) : i > 1 => r[i].do # "spend"
    BY <1>1, <1>4
<1>8. what \in Deletions => \A i \in 1 .. Len(r) : r[i].do \in Removal
    BY <1>1, <1>3, <1>4 DEF IsList
<1>9. what \notin Deletions => \A i \in 1 .. Len(r) : r[i].do \notin {"revokeAll", "deleteUser"}
    BY <1>1, <1>3, <1>4 DEF IsList
<1>10. IsList(what, r)
    BY <1>3, <1>6, <1>7, <1>8, <1>9 DEF IsList
<1>11. \A t : Revokes(r, t) <=> q.do = "revoke" /\ q.id = t
    BY <1>1, <1>3, <1>4, <1>5 DEF Revokes
<1>12. \A c : Spends(r, c) <=> q.do = "spend" /\ q.id = c
    BY <1>1, <1>3, <1>4, <1>5 DEF Spends
<1>13. WillEnrol(r) <=> (q.do \in {"findProfile", "addProfile"} \/ WillEnrol(s))
    BY <1>3, <1>4, <1>5 DEF WillEnrol
<1>14. AllLate(r) <=> (q.do \in Late /\ AllLate(s))
    BY <1>3, <1>4, <1>5 DEF AllLate
<1>15. q.do \notin {"spend", "revoke"} => Plan(what, r)
    BY <1>1, <1>3, <1>4, <1>10 DEF Plan
<1>. QED
    BY <1>2, <1>10, <1>11, <1>12, <1>13, <1>14, <1>15

(* Nothing is a plan.                                                      *)
LEMMA EmptyPlan ==
    ASSUME NEW what
    PROVE  Plan(what, <<>>) /\ AllLate(<<>>) /\ ~ WillEnrol(<<>>)
<1>1. <<>> \in Seq(Queries) /\ Len(<<>>) = 0
    OBVIOUS
<1>. QED
    BY <1>1 DEF Plan, IsList, AllLate, WillEnrol

(* One query is a plan.                                                    *)
LEMMA OnePlan ==
    ASSUME NEW what, NEW q \in Queries, q.do \notin {"spend", "revoke"},
           what \in Deletions => q.do \in Removal,
           what \notin Deletions => q.do \notin {"revokeAll", "deleteUser"}
    PROVE  /\ Plan(what, <<q>>) /\ (AllLate(<<q>>) <=> q.do \in Late)
           /\ WillEnrol(<<q>>) <=> q.do \in {"findProfile", "addProfile"}
<1>1. <<q>> \o <<>> = <<q>>
    OBVIOUS
<1>2. PICK r : r = <<q>> \o <<>>
    OBVIOUS
<1>3. /\ Plan(what, r) /\ (AllLate(r) <=> q.do \in Late)
      /\ WillEnrol(r) <=> q.do \in {"findProfile", "addProfile"}
    BY <1>2, EmptyPlan, ConsIsList
<1>. QED
    BY <1>1, <1>2, <1>3

(* What is done instead of a deletion that fails.                          *)
LEMMA ScrubPlan ==
    ASSUME NEW what \in Deletions
    PROVE  Plan(what, ScrubInstead(what)) /\ ~ AllLate(ScrubInstead(what))
<1>1. PICK q, z : q = [do |-> "setUser", fields |-> Scrubbed] /\ z = [do |-> "close"]
    OBVIOUS
<1>2. q \in Queries /\ z \in Queries /\ q.do = "setUser" /\ z.do = "close"
    BY <1>1, ScrubbedIsQuery DEF Queries, Simple
<1>3. PICK s : s = <<q>>
    OBVIOUS
<1>4. Plan(what, s) /\ ~ AllLate(s)
    BY <1>2, <1>3, OnePlan DEF Removal, Late
<1>5. Plan(what, <<z>> \o s) /\ ~ AllLate(<<z>> \o s)
    BY <1>2, <1>4, ConsIsList DEF Removal, Late
<1>6. s \in Seq(Queries)
    BY <1>2, <1>3
<1>7. <<>> \o s = s
    BY <1>6
<1>8. ScrubInstead(what) = (IF what = "deleteMember" THEN <<z>> ELSE <<>>) \o s
    BY <1>1, <1>3 DEF ScrubInstead, Todo, SetUser
<1>. QED
    BY <1>4, <1>5, <1>7, <1>8

(* A query that fails is a step of its call.                               *)
LEMMA QueryFailsRuns ==
    ASSUME Shapes, Valid(db), NEW h \in Slots, QueryFails(h)
    PROVE  CallRuns(h)
<1>1. Busy(h) /\ UNCHANGED <<db, device, now, lastKey, cuts>> /\ Doing(h).do \in Plain
    BY DEF QueryFails
<1>2. Doing(h).do # "spend"
  <2>1. ASSUME Doing(h).do = "spend" PROVE FALSE
    <3>1. Refers(h)
        BY <2>1 DEF Refers
    <3>2. Valid(After(Doing(h), request[h].user, lastKey + 1))
        BY <2>1, SpendWorks
    <3>. QED
        BY <3>1, <3>2 DEF QueryFails
  <2>. QED
      BY <2>1
<1>3. CASE Doing(h).do # "deleteUser"
  <2>1. Ends(h)
      BY <1>3 DEF QueryFails
  <2>. QED
      BY <1>1, <1>2, <2>1, EndsIs, QuietRuns
<1>4. CASE Doing(h).do = "deleteUser"
  <2>1. PICK s : s = ScrubInstead(request[h].what)
      OBVIOUS
  <2>2. request[h].what \in Deletions
      BY <1>1, <1>4, BusyIs
  <2>3. GoesAs(h, [request[h] EXCEPT !.todo = s])
      BY <1>4, <2>1 DEF QueryFails, GoesTo
  <2>5. /\ IsList(request[h].what, s) /\ ~ AllLate(s)
        /\ (\A t : ~ Revokes(s, t)) /\ (\A c : ~ Spends(s, c))
      BY <2>1, <2>2, ScrubPlan, PlanIs
  <2>6. PICK c, n : c = request[h] /\ n = request'[h]
      OBVIOUS
  <2>7. OthersStay(h) /\ n = [request[h] EXCEPT !.todo = s]
      BY <2>3, <2>6, GoesAsIs
  <2>8. /\ n = [what |-> c.what, at |-> c.at, user |-> c.user, token |-> c.token, code |-> c.code, todo |-> s]
        /\ n.what = c.what /\ n.user = c.user /\ n.token = c.token /\ n.code = c.code /\ n.todo = s
      BY <2>6, <2>7, AsRequest
  <2>9. /\ IsRequest(c) /\ IsList(c.what, c.todo) /\ c.todo # <<>> /\ Doing(h) = Head(c.todo)
      BY <1>1, <2>6, BusyIs DEF Doing
  <2>10. IsRequest(request[h])'
      BY <1>1, <2>5, <2>6, <2>8, <2>9 DEF IsRequest, IsList
  <2>11. ~ AllLate(c.todo)
      BY <1>4, <2>9, TailHas DEF Late
  <2>12. ~ WillEnrol(c.todo)
      BY <2>2, <2>6, <2>9 DEF WillEnrol, IsList, Removal
  <2>13. GoesOn(h)
      BY <2>5, <2>6, <2>8, <2>10, <2>11, <2>12 DEF GoesOn
  <2>. QED
      BY <1>1, <1>2, <2>7, <2>13, QuietRuns
<1>. QED
    BY <1>3, <1>4

(* The steps of a call that look something up.                             *)
LEMMA AsLeft ==
    ASSUME Shapes, NEW h \in Slots, NEW r, r = Rest(h)
    PROVE  Left(h) = [what |-> request[h].what, at |-> request[h].at, user |-> request[h].user,
                      token |-> request[h].token, code |-> request[h].code, todo |-> r]
BY AsRequest DEF Left

(* A call that goes on with the user it found.                             *)
LEMMA LeftWithUser ==
    ASSUME Shapes, NEW h \in Slots, NEW u
    PROVE  [Left(h) EXCEPT !.user = u] =
             [what |-> request[h].what, at |-> request[h].at, user |-> u,
              token |-> request[h].token, code |-> request[h].code, todo |-> Rest(h)]
<1>1. PICK r, l : r = Rest(h) /\ l = Left(h)
    OBVIOUS
<1>2. l = [what |-> request[h].what, at |-> request[h].at, user |-> request[h].user,
           token |-> request[h].token, code |-> request[h].code, todo |-> r]
    BY <1>1, AsLeft
<1>3. [l EXCEPT !.user = u] =
        [what |-> request[h].what, at |-> request[h].at, user |-> u,
         token |-> request[h].token, code |-> request[h].code, todo |-> r]
    BY <1>2
<1>. QED
    BY <1>1, <1>3

(* A call that goes on with the code it found.                             *)
LEMMA LeftWithCode ==
    ASSUME Shapes, NEW h \in Slots, NEW c
    PROVE  [Left(h) EXCEPT !.code = c] =
             [what |-> request[h].what, at |-> request[h].at, user |-> request[h].user,
              token |-> request[h].token, code |-> c, todo |-> Rest(h)]
<1>1. PICK r, l : r = Rest(h) /\ l = Left(h)
    OBVIOUS
<1>2. l = [what |-> request[h].what, at |-> request[h].at, user |-> request[h].user,
           token |-> request[h].token, code |-> request[h].code, todo |-> r]
    BY <1>1, AsLeft
<1>3. [l EXCEPT !.code = c] =
        [what |-> request[h].what, at |-> request[h].at, user |-> request[h].user,
         token |-> request[h].token, code |-> c, todo |-> r]
    BY <1>2
<1>. QED
    BY <1>1, <1>3

(* Looking up the account of a phone.                                      *)
LEMMA FindOrCreateRuns ==
    ASSUME Shapes, Valid(db), NEW h \in Slots, FindOrCreate(h)
    PROVE  CallRuns(h)
<1>1. Busy(h) /\ Doing(h).do = "findOrCreate" /\ UNCHANGED <<db, device, now, lastKey, cuts>>
    BY DEF FindOrCreate
<1>2. Tables /\ lastKey \in Nat
    BY DEF Shapes, Tables
<1>3. /\ request[h].what \notin Deletions /\ Doing(h) \in Queries
      /\ Doing(h).id \in Phones /\ Doing(h).value \in RoleNames
    BY <1>1, BusyIs, AQueryIs DEF Removal
<1>4. PICK u : u = ActiveAccount(Doing(h).id, Doing(h).value)
    OBVIOUS
<1>5. u \in 0 .. lastKey
    BY <1>2, <1>4, AccountsAre
<1>6. CASE u # None
  <2>1. GoesAs(h, [Left(h) EXCEPT !.user = u])
      BY <1>4, <1>6 DEF FindOrCreate
  <2>2. OthersStay(h) /\ request'[h] = [Left(h) EXCEPT !.user = u]
      BY <2>1, GoesAsIs
  <2>3. request'[h] = [what |-> request[h].what, at |-> request[h].at, user |-> u,
                       token |-> request[h].token, code |-> request[h].code, todo |-> Rest(h)]
      BY <2>2, LeftWithUser
  <2>4. GoesOn(h)
      BY <1>1, <1>5, <2>3, PassesOn DEF Late, Removal
  <2>. QED
      BY <1>1, <2>2, <2>4, QuietRuns
<1>7. CASE u = None
  <2>1. PICK line : line = UserRow(Doing(h).id, Doing(h).value, TRUE, FALSE, None)
      OBVIOUS
  <2>2. line \in UserRows
      BY <1>3, <2>1 DEF UserRow, UserRows, None
  <2>3. PICK q : q = [do |-> "newUser", row |-> line]
      OBVIOUS
  <2>4. q \in Queries /\ q.do = "newUser"
      BY <2>2, <2>3 DEF Queries
  <2>5. GoesTo(h, <<q>> \o Rest(h))
      BY <1>4, <1>7, <2>1, <2>3 DEF FindOrCreate, NewUser
  <2>6. OthersStay(h) /\ GoesOn(h)
      BY <1>1, <1>3, <2>4, <2>5, Replaces DEF Late
  <2>. QED
      BY <1>1, <2>6, QuietRuns
<1>. QED
    BY <1>6, <1>7

(* Looking up the user whose password is reset.                            *)
LEMMA FindUserRuns ==
    ASSUME Shapes, Valid(db), NEW h \in Slots, FindUser(h)
    PROVE  CallRuns(h)
<1>1. Busy(h) /\ Doing(h).do = "findUser" /\ UNCHANGED <<db, device, now, lastKey, cuts>>
    BY DEF FindUser
<1>2. Tables /\ lastKey \in Nat
    BY DEF Shapes, Tables
<1>3. PICK u : u = AccountOf(Doing(h).id, Doing(h).value)
    OBVIOUS
<1>4. u \in 0 .. lastKey
    BY <1>2, <1>3, AccountsAre
<1>5. CASE u = None
  <2>1. Ends(h)
      BY <1>3, <1>5 DEF FindUser
  <2>. QED
      BY <1>1, <2>1, EndsIs, QuietRuns
<1>6. CASE u # None
  <2>1. GoesAs(h, [Left(h) EXCEPT !.user = u])
      BY <1>3, <1>6 DEF FindUser
  <2>2. OthersStay(h) /\ request'[h] = [Left(h) EXCEPT !.user = u]
      BY <2>1, GoesAsIs
  <2>3. request'[h] = [what |-> request[h].what, at |-> request[h].at, user |-> u,
                       token |-> request[h].token, code |-> request[h].code, todo |-> Rest(h)]
      BY <2>2, LeftWithUser
  <2>4. GoesOn(h)
      BY <1>1, <1>4, <2>3, PassesOn DEF Late, Removal
  <2>. QED
      BY <1>1, <2>2, <2>4, QuietRuns
<1>. QED
    BY <1>5, <1>6

(* A call that goes on with what it has.                                   *)
LEMMA MovesOnIs ==
    ASSUME Shapes, NEW h \in Slots, Busy(h), lastKey' = lastKey, MovesOn(h),
           Doing(h).do \in {"draw", "findProfile"},
           Doing(h).do = "findProfile" => request[h].user \in DOMAIN profile'
    PROVE  OthersStay(h) /\ GoesOn(h)
<1>1. PICK u, c : u = request[h].user /\ c = request[h].code
    OBVIOUS
<1>2. u \in 0 .. lastKey
    BY <1>1 DEF Shapes, IsRequest
<1>3. OthersStay(h) /\ request'[h] = Left(h)
    BY GoesAsIs DEF MovesOn
<1>4. request'[h] = [what |-> request[h].what, at |-> request[h].at, user |-> u,
                     token |-> request[h].token, code |-> c, todo |-> Rest(h)]
    BY <1>1, <1>3, AsLeft
<1>5. GoesOn(h)
    BY <1>1, <1>2, <1>4, PassesOn
<1>. QED
    BY <1>3, <1>5

(* Looking up the rider's or the vendor's row.                             *)
LEMMA FindProfileRuns ==
    ASSUME Shapes, Valid(db), NEW h \in Slots, FindProfile(h)
    PROVE  CallRuns(h)
<1>1. Busy(h) /\ Doing(h).do = "findProfile" /\ UNCHANGED <<db, device, now, lastKey, cuts>>
    BY DEF FindProfile
<1>2. request[h].what \notin Deletions /\ profile' = profile
    BY <1>1, BusyIs DEF Removal, profile
<1>3. CASE request[h].user \in DOMAIN profile
  <2>1. MovesOn(h)
      BY <1>3 DEF FindProfile
  <2>. QED
      BY <1>1, <1>2, <1>3, <2>1, MovesOnIs, QuietRuns
<1>4. CASE request[h].user \notin DOMAIN profile
  <2>1. PICK q : q = [do |-> "addProfile"]
      OBVIOUS
  <2>2. q \in Queries /\ q.do = "addProfile"
      BY <2>1 DEF Queries, Simple
  <2>3. GoesTo(h, <<q>> \o Rest(h))
      BY <1>4, <2>1 DEF FindProfile, Todo
  <2>4. OthersStay(h) /\ GoesOn(h)
      BY <1>1, <1>2, <2>2, <2>3, Replaces DEF Late
  <2>. QED
      BY <1>1, <2>4, QuietRuns
<1>. QED
    BY <1>3, <1>4

(* Reading and drawing a referral code are queries.                        *)
LEMMA DrawIsQuery ==
    ASSUME NEW n \in Nat
    PROVE  /\ [do |-> "draw", left |-> n] \in Queries
           /\ [do |-> "readCode", id |-> None, value |-> n] \in Queries
BY DEF Queries

(* Reading the referral code.                                              *)
LEMMA ReadCodeRuns ==
    ASSUME Shapes, Valid(db), NEW h \in Slots, ReadCode(h)
    PROVE  CallRuns(h)
<1>1. Busy(h) /\ Doing(h).do = "readCode" /\ UNCHANGED <<db, device, now, lastKey, cuts>>
    BY DEF ReadCode
<1>2. request[h].what \notin Deletions /\ user' = user /\ Doing(h) \in Queries
    BY <1>1, BusyIs DEF Removal, user
<1>3. PICK u : u = request[h].user
    OBVIOUS
<1>4. u \in 0 .. lastKey
    BY <1>3 DEF Shapes, IsRequest
<1>5. CASE u \in DOMAIN user /\ user[u].code # None
  <2>1. PICK c : c = user[u].code
      OBVIOUS
  <2>2. GoesAs(h, [Left(h) EXCEPT !.code = c])
      BY <1>3, <1>5, <2>1 DEF ReadCode
  <2>3. OthersStay(h) /\ request'[h] = [Left(h) EXCEPT !.code = c]
      BY <2>2, GoesAsIs
  <2>4. request'[h] = [what |-> request[h].what, at |-> request[h].at, user |-> u,
                       token |-> request[h].token, code |-> c, todo |-> Rest(h)]
      BY <1>3, <2>3, LeftWithCode
  <2>5. GoesOn(h)
      BY <1>1, <1>2, <1>3, <1>4, <2>1, <2>4, PassesOn DEF Late
  <2>. QED
      BY <1>1, <2>3, <2>5, QuietRuns
<1>6. CASE ~(u \in DOMAIN user /\ user[u].code # None)
  <2>1. Doing(h).value \in Nat
      BY <1>1, <1>2, AQueryIs
  <2>2. PICK q : q = [do |-> "draw", left |-> Doing(h).value]
      OBVIOUS
  <2>3. q \in Queries /\ q.do = "draw"
      BY <2>1, <2>2, DrawIsQuery
  <2>4. GoesTo(h, <<q>> \o Rest(h))
      BY <1>3, <1>6, <2>2 DEF ReadCode, Draw
  <2>5. OthersStay(h) /\ GoesOn(h)
      BY <1>1, <1>2, <2>3, <2>4, Replaces DEF Late
  <2>. QED
      BY <1>1, <2>5, QuietRuns
<1>. QED
    BY <1>5, <1>6

(* A code that nobody has is written.                                      *)
LEMMA CodeWritten ==
    ASSUME Shapes, Valid(db), NEW u \in DOMAIN user, user[u].code = None, NEW c \in Codes,
           ~ \E w \in DOMAIN user \ {u} : user[w].code = c,
           db' = [db EXCEPT !.user[u].code = c], UNCHANGED <<device, now, lastKey, cuts>>
    PROVE  /\ Tables' /\ Valid(db)'
           /\ DOMAIN user' = DOMAIN user /\ user'[u].code = c
           /\ \A w \in DOMAIN user : w # u => user'[w] = user[w]
           /\ profile' = profile /\ token' = token /\ otp' = otp
<1>1. PICK d, e : d = db /\ e = db'
    OBVIOUS
<1>2. /\ d = [user |-> d.user, profile |-> d.profile, documents |-> d.documents, token |-> d.token,
              otp |-> d.otp, address |-> d.address]
      /\ d.user = user /\ d.profile = profile /\ d.token = token /\ d.otp = otp /\ d.address = address
      /\ user \in [DOMAIN user -> UserRows] /\ Tables
    BY <1>1 DEF Shapes, Tables, user, profile, documents, token, otp, address
<1>3. PICK U : U = [user EXCEPT ![u].code = c]
    OBVIOUS
<1>4. e = [d EXCEPT !.user[u].code = c]
    BY <1>1
<1>5. e = [user |-> U, profile |-> d.profile, documents |-> d.documents, token |-> d.token,
           otp |-> d.otp, address |-> d.address]
    BY <1>2, <1>3, <1>4
<1>6. /\ e = [user |-> e.user, profile |-> e.profile, documents |-> e.documents, token |-> e.token,
              otp |-> e.otp, address |-> e.address]
      /\ e.user = U /\ e.profile = d.profile /\ e.documents = d.documents
      /\ e.token = d.token /\ e.otp = d.otp /\ e.address = d.address
    BY <1>5
<1>7. [user[u] EXCEPT !.code = c] \in UserRows /\ [user[u] EXCEPT !.code = c].code = c
    BY <1>2 DEF UserRows
<1>8. /\ U \in [DOMAIN user -> UserRows] /\ DOMAIN U = DOMAIN user
      /\ U[u].code = c /\ \A w \in DOMAIN user : w # u => U[w] = user[w]
    BY <1>2, <1>3, <1>7
<1>9. user' = U /\ profile' = profile /\ token' = token /\ otp' = otp /\ documents' = documents /\ address' = address
    BY <1>1, <1>2, <1>6 DEF user, profile, token, otp, documents, address
<1>10. Tables'
    BY <1>1, <1>2, <1>6, <1>8, <1>9 DEF Tables, user, profile, documents, token, otp, address
<1>11. \A w \in DOMAIN user : U[w].phone = user[w].phone /\ U[w].role = user[w].role /\ U[w].referrer = user[w].referrer
  <2>1. [user[u] EXCEPT !.code = c].phone = user[u].phone /\ [user[u] EXCEPT !.code = c].role = user[u].role
        /\ [user[u] EXCEPT !.code = c].referrer = user[u].referrer
      BY <1>2 DEF UserRows
  <2>. QED
      BY <1>2, <1>3, <2>1
<1>12. Valid(d)
    BY <1>1
<1>13. Valid(e)
  <2>1. ASSUME NEW w \in DOMAIN e.user
        PROVE  /\ e.user[w].referrer \in DOMAIN e.user \cup {None}
               /\ e.user[w].phone # None => \A x \in DOMAIN e.user \ {w} :
                    <<e.user[w].phone, e.user[w].role>> # <<e.user[x].phone, e.user[x].role>>
               /\ e.user[w].code # None => \A x \in DOMAIN e.user \ {w} : e.user[w].code # e.user[x].code
    <3>1. w \in DOMAIN d.user /\ DOMAIN e.user = DOMAIN d.user
        BY <1>2, <1>6, <1>8, <2>1
    <3>2. /\ d.user[w].referrer \in DOMAIN d.user \cup {None}
          /\ d.user[w].phone # None => \A x \in DOMAIN d.user \ {w} :
               <<d.user[w].phone, d.user[w].role>> # <<d.user[x].phone, d.user[x].role>>
          /\ d.user[w].code # None => \A x \in DOMAIN d.user \ {w} : d.user[w].code # d.user[x].code
        BY <1>12, <3>1 DEF Valid
    <3>3. e.user[w].code # None => \A x \in DOMAIN e.user \ {w} : e.user[w].code # e.user[x].code
        BY <1>2, <1>6, <1>8, <3>1, <3>2
    <3>4. e.user[w].phone # None => \A x \in DOMAIN e.user \ {w} :
            <<e.user[w].phone, e.user[w].role>> # <<e.user[x].phone, e.user[x].role>>
        BY <1>2, <1>6, <1>8, <1>11, <3>1, <3>2
    <3>5. e.user[w].referrer \in DOMAIN e.user \cup {None}
        BY <1>2, <1>6, <1>8, <1>11, <3>1, <3>2
    <3>. QED
        BY <3>3, <3>4, <3>5
  <2>2. DOMAIN e.profile \cup e.documents \cup {e.token[t].user : t \in DOMAIN e.token}
          \cup {e.address[a].user : a \in DOMAIN e.address} \subseteq DOMAIN e.user
      BY <1>2, <1>6, <1>8, <1>12 DEF Valid
  <2>. QED
      BY <2>1, <2>2 DEF Valid
<1>. QED
    BY <1>1, <1>8, <1>9, <1>10, <1>13

(* Drawing no more.                                                        *)
LEMMA GivesUpRuns ==
    ASSUME Shapes, Valid(db), NEW h \in Slots, Busy(h), Doing(h).do = "draw", GivesUp(h),
           UNCHANGED <<db, device, now, lastKey, cuts>>
    PROVE  CallRuns(h)
<1>1. CASE MovesOn(h)
    BY <1>1, MovesOnIs, QuietRuns
<1>2. CASE Ends(h)
    BY <1>2, EndsIs, QuietRuns
<1>. QED
    BY <1>1, <1>2 DEF GivesUp

(* Drawing a referral code, and writing it where there is none.            *)
LEMMA DrawCodeRuns ==
    ASSUME Shapes, Valid(db), NEW h \in Slots, DrawCode(h)
    PROVE  CallRuns(h)
<1>1. Busy(h) /\ Doing(h).do = "draw" /\ UNCHANGED <<device, now, lastKey, cuts>>
    BY DEF DrawCode
<1>2. request[h].what \notin Deletions /\ Doing(h) \in Queries
    BY <1>1, BusyIs DEF Removal
<1>3. PICK u, n : u = request[h].user /\ n = Doing(h).left
    OBVIOUS
<1>4. u \in 0 .. lastKey /\ n \in Nat
    BY <1>1, <1>2, <1>3, AQueryIs DEF Shapes, IsRequest
<1>5. CASE n = 0
  <2>1. GivesUp(h) /\ UNCHANGED db
      BY <1>3, <1>5 DEF DrawCode
  <2>. QED
      BY <1>1, <2>1, GivesUpRuns
<1>6. CASE n # 0 /\ ~ NoCodeYet(u)
  <2>0. n - 1 \in Nat
      BY <1>4, <1>6
  <2>1. PICK q : q = [do |-> "readCode", id |-> None, value |-> n - 1]
      OBVIOUS
  <2>2. q \in Queries /\ q.do = "readCode"
      BY <2>0, <2>1, DrawIsQuery
  <2>3. GoesTo(h, <<q>> \o Rest(h)) /\ UNCHANGED db
      BY <1>3, <1>6, <2>1 DEF DrawCode, OnRow
  <2>4. OthersStay(h) /\ GoesOn(h)
      BY <1>1, <1>2, <2>2, <2>3, Replaces DEF Late
  <2>. QED
      BY <1>1, <2>3, <2>4, QuietRuns
<1>7. CASE n # 0 /\ NoCodeYet(u)
  <2>1. PICK c \in Codes :
          IF \E w \in DOMAIN user \ {u} : user[w].code = c
          THEN GoesTo(h, Draw(n - 1) \o Rest(h)) /\ UNCHANGED db
          ELSE db' = [db EXCEPT !.user[u].code = c] /\ GoesAs(h, [Left(h) EXCEPT !.code = c])
      BY <1>3, <1>7 DEF DrawCode
  <2>2. CASE \E w \in DOMAIN user \ {u} : user[w].code = c
    <3>0. n - 1 \in Nat
        BY <1>4, <1>7
    <3>1. PICK q : q = [do |-> "draw", left |-> n - 1]
        OBVIOUS
    <3>2. q \in Queries /\ q.do = "draw"
        BY <3>0, <3>1, DrawIsQuery
    <3>3. GoesTo(h, <<q>> \o Rest(h)) /\ UNCHANGED db
        BY <2>1, <2>2, <3>1 DEF Draw
    <3>4. OthersStay(h) /\ GoesOn(h)
        BY <1>1, <1>2, <3>2, <3>3, Replaces DEF Late
    <3>. QED
        BY <1>1, <3>3, <3>4, QuietRuns
  <2>3. CASE ~ \E w \in DOMAIN user \ {u} : user[w].code = c
    <3>1. db' = [db EXCEPT !.user[u].code = c] /\ GoesAs(h, [Left(h) EXCEPT !.code = c])
        BY <2>1, <2>3
    <3>2. u \in DOMAIN user /\ user[u].code = None
        BY <1>7 DEF NoCodeYet
    <3>3. /\ Tables' /\ Valid(db)'
          /\ DOMAIN user' = DOMAIN user /\ user'[u].code = c
          /\ \A w \in DOMAIN user : w # u => user'[w] = user[w]
          /\ profile' = profile /\ token' = token /\ otp' = otp
        BY <1>1, <2>3, <3>1, <3>2, CodeWritten
    <3>4. OthersStay(h) /\ request'[h] = [Left(h) EXCEPT !.code = c]
        BY <3>1, GoesAsIs
    <3>5. request'[h] = [what |-> request[h].what, at |-> request[h].at, user |-> u,
                         token |-> request[h].token, code |-> c, todo |-> Rest(h)]
        BY <1>3, <3>4, LeftWithCode
    <3>6. GoesOn(h)
        BY <1>1, <1>3, <1>4, <3>3, <3>5, PassesOn DEF Late
    <3>7. KeptTables(h)
        BY <1>1, <3>2, <3>3 DEF KeptTables, UsersKept, ProfilesKept, TokensKept, Tables
    <3>8. \A x : ~ Spends(request[h].todo, x)
        BY <1>1, BusyIs, TailHas DEF Doing
    <3>9. OtpsKept(h)
        BY <3>3, <3>8 DEF OtpsKept
    <3>. QED
        BY <1>1, <3>4, <3>6, <3>7, <3>9, BusyIs DEF CallRuns
  <2>. QED
      BY <2>2, <2>3
<1>. QED
    BY <1>5, <1>6, <1>7

-----------------------------------------------------------------------------
(* A step of a call that has something to do keeps the invariant.          *)

(* What a step adds to the history.                                        *)
Histories ==
    /\ alone' = (alone /\ cuts' = cuts /\ \A h, k \in Slots : h # k => request'[h] = NoRequest \/ request'[k] = NoRequest)
    /\ told' = told \cup {<<request[h].user, request[h].code>> : h \in Told}
    /\ enrolled' = enrolled \cup {request[h].user : h \in Enrolling}
    /\ accepted' = accepted + (IF LetIn # {} THEN 1 ELSE 0)
    /\ ended' = ended \cup {request'[h].user : h \in Ending}

(* Whoever's deletion has begun stays on record.                           *)
LEMMA EndedGrows ==
    ASSUME Histories
    PROVE  /\ ended \subseteq ended'
           /\ \A h \in Slots : request'[h].what \in Deletions => request'[h].user \in ended'
BY DEF Histories, Ending, Deletions

(* A step of a call in progress answers and lets in nobody.                *)
LEMMA RunHistory ==
    ASSUME NEW h \in Slots, CallRuns(h), Histories
    PROVE  told' = told /\ enrolled' = enrolled /\ LetIn = {} /\ accepted' = accepted + 0
<1>1. \A k \in Slots : ~ Answered(k)
  <2>1. ~ Answered(h)
      BY DEF CallRuns, Answered, Busy
  <2>2. \A k \in Slots : k # h => ~ Answered(k)
      BY DEF CallRuns, Answered, OthersStay
  <2>. QED
      BY <2>1, <2>2
<1>2. Told = {} /\ Enrolling = {}
    BY <1>1 DEF Told, Enrolling
<1>3. \A k \in Slots : k \notin LetIn
  <2>1. h \notin LetIn
      BY DEF CallRuns, LetIn
  <2>2. \A k \in Slots : k # h => k \notin LetIn
      BY NoRequestIs DEF CallRuns, LetIn, OthersStay
  <2>. QED
      BY <2>1, <2>2
<1>4. LetIn = {}
    BY <1>3 DEF LetIn
<1>. QED
    BY <1>2, <1>4 DEF Histories

(* A call that stays keeps its shape.                                      *)
LEMMA RequestStays ==
    ASSUME Shapes, Tables', lastKey' >= lastKey, NEW k \in Slots, request'[k] = request[k]
    PROVE  IsRequest(request[k])'
<1>1. PICK c : c = request[k]
    OBVIOUS
<1>2. IsRequest(c) /\ request'[k] = c
    BY <1>1 DEF Shapes
<1>3. lastKey \in Nat /\ lastKey' \in Nat
    BY DEF Shapes, Tables
<1>4. c.user \in 0 .. lastKey' /\ c.token \in 0 .. lastKey'
    BY <1>2, <1>3 DEF IsRequest
<1>. QED
    BY <1>2, <1>4 DEF IsRequest, IsList

(* A step of a call keeps all shapes.                                      *)
LEMMA RunShapes ==
    ASSUME Shapes, NEW h \in Slots, CallRuns(h)
    PROVE  Shapes'
<1>1. Tables' /\ lastKey' >= lastKey
    BY DEF CallRuns, KeptTables
<1>2. \A k \in Slots : k # h => IsRequest(request[k])'
    BY <1>1, RequestStays DEF CallRuns, OthersStay
<1>3. IsRequest(request[h])'
  <2>1. ASSUME request'[h] = NoRequest PROVE IsRequest(request[h])'
    <3>1. IsRequest(NoRequest)'
      <4>1. lastKey' \in Nat
          BY <1>1 DEF Tables
      <4>. QED
          BY <4>1, NoRequestIs, NoRequestList DEF IsRequest, IsList, None
    <3>. QED
        BY <2>1, <3>1 DEF IsRequest, IsList
  <2>. QED
      BY <2>1 DEF CallRuns, GoesOn
<1>. QED
    BY <1>1, <1>2, <1>3 DEF Shapes, CallRuns, OthersStay

(* What the tables keep of the users that there were.                      *)
LEMMA CodeKept ==
    ASSUME Shapes, UsersKept, NEW w \in 0 .. lastKey, NEW c, c # None,
           w \in DOMAIN user => user[w].code = c, w \in DOMAIN user'
    PROVE  user'[w].code = c
<1>1. lastKey \in Nat
    BY DEF Shapes, Tables
<1>. QED
    BY <1>1 DEF UsersKept

(* A step of a call keeps what was told.                                   *)
LEMMA RunCode ==
    ASSUME Shapes, CodeInv, NEW h \in Slots, CallRuns(h), Histories
    PROVE  CodeInv'
<1>1. told' = told /\ UsersKept /\ lastKey' >= lastKey /\ lastKey \in Nat /\ lastKey' \in Nat
    BY RunHistory DEF CallRuns, KeptTables, Shapes, Tables
<1>2. ASSUME NEW t \in told
      PROVE  t[1] \in 0 .. lastKey' /\ t[2] # None /\ (t[1] \in DOMAIN user' => user'[t[1]].code = t[2])
  <2>1. PICK w, c : w = t[1] /\ c = t[2]
      OBVIOUS
  <2>2. w \in 0 .. lastKey /\ c # None /\ (w \in DOMAIN user => user[w].code = c)
      BY <2>1 DEF CodeInv
  <2>3. w \in 0 .. lastKey'
      BY <1>1, <2>2
  <2>4. w \in DOMAIN user' => user'[w].code = c
      BY <1>1, <2>2, CodeKept
  <2>. QED
      BY <2>1, <2>2, <2>3, <2>4
<1>3. ASSUME NEW k \in Slots, request'[k].code # None
      PROVE  /\ AllLate(request'[k].todo)
             /\ request'[k].user \in DOMAIN user' => user'[request'[k].user].code = request'[k].code
  <2>1. PICK c : c = request[k]
      OBVIOUS
  <2>2. c.user \in 0 .. lastKey
      BY <2>1 DEF Shapes, IsRequest
  <2>3. c.code # None => AllLate(c.todo) /\ (c.user \in DOMAIN user => user[c.user].code = c.code)
      BY <2>1 DEF CodeInv
  <2>4. c.code # None /\ c.user \in DOMAIN user' => user'[c.user].code = c.code
      BY <1>1, <2>2, <2>3, CodeKept
  <2>5. CASE k # h
    <3>1. request'[k] = c
        BY <2>1, <2>5 DEF CallRuns, OthersStay
    <3>. QED
        BY <1>3, <2>3, <2>4, <3>1
  <2>6. CASE k = h
    <3>1. GoesOn(h)
        BY <1>3, <2>6, NoRequestIs DEF CallRuns
    <3>. QED
        BY <1>3, <2>1, <2>3, <2>4, <2>6, <3>1 DEF GoesOn
  <2>. QED
      BY <2>5, <2>6
<1>4. told = told' /\ \A t \in told' :
        t[1] \in 0 .. lastKey' /\ t[2] # None /\ (t[1] \in DOMAIN user' => user'[t[1]].code = t[2])
    BY <1>1, <1>2
<1>. QED
    BY <1>3, <1>4 DEF CodeInv, AllLate

(* A step of a call keeps the rows of whoever enrolled.                    *)
LEMMA RunEnrol ==
    ASSUME Shapes, EnrolInv, NEW h \in Slots, CallRuns(h), Histories
    PROVE  EnrolInv'
<1>1. /\ enrolled' = enrolled /\ UsersKept /\ ProfilesKept
      /\ lastKey' >= lastKey /\ lastKey \in Nat /\ lastKey' \in Nat
    BY RunHistory DEF CallRuns, KeptTables, Shapes, Tables
<1>2. \A u \in 0 .. lastKey : u \in DOMAIN user' => u \in DOMAIN user /\ (u \in DOMAIN profile => u \in DOMAIN profile')
    BY <1>1 DEF UsersKept, ProfilesKept
<1>3. enrolled' \subseteq 0 .. lastKey'
    BY <1>1 DEF EnrolInv
<1>4. \A u \in enrolled \cap DOMAIN user' : u \in DOMAIN profile'
    BY <1>2 DEF EnrolInv, EnrolledHasProfile
<1>5. ASSUME NEW k \in Slots, request'[k].what \in Enrols
      PROVE  \/ WillEnrol(request'[k].todo)
             \/ /\ AllLate(request'[k].todo)
                /\ request'[k].user \in DOMAIN user' => request'[k].user \in DOMAIN profile'
  <2>1. PICK c : c = request[k]
      OBVIOUS
  <2>2. c.user \in 0 .. lastKey
      BY <2>1 DEF Shapes, IsRequest
  <2>3. c.what \in Enrols => WillEnrol(c.todo) \/ (AllLate(c.todo) /\ (c.user \in DOMAIN user => c.user \in DOMAIN profile))
      BY <2>1 DEF EnrolInv
  <2>4. c.what \in Enrols => WillEnrol(c.todo) \/ (AllLate(c.todo) /\ (c.user \in DOMAIN user' => c.user \in DOMAIN profile'))
      BY <1>2, <2>2, <2>3
  <2>5. CASE k # h
    <3>1. request'[k] = c
        BY <2>1, <2>5 DEF CallRuns, OthersStay
    <3>. QED
        BY <1>5, <2>4, <3>1
  <2>6. CASE k = h
    <3>1. GoesOn(h)
        BY <1>5, <2>6, NoRequestIs DEF CallRuns, Enrols
    <3>. QED
        BY <1>5, <2>1, <2>4, <2>6, <3>1 DEF GoesOn
  <2>. QED
      BY <2>5, <2>6
<1>6. EnrolledHasProfile'
    BY <1>1, <1>4 DEF EnrolledHasProfile
<1>. QED
    BY <1>3, <1>5, <1>6 DEF EnrolInv, AllLate, WillEnrol

(* A set of ids is finite, and a subset of it is no larger.                *)
LEMMA MoreMembers ==
    ASSUME NEW S, NEW T, NEW k \in Nat, S \subseteq T, T \subseteq 1 .. k
    PROVE  IsFiniteSet(S) /\ IsFiniteSet(T) /\ Cardinality(S) <= Cardinality(T) /\ Cardinality(S) \in Nat /\ Cardinality(T) \in Nat
<1>1. IsFiniteSet(1 .. k)
    BY FS_Interval
<1>2. IsFiniteSet(T)
    BY <1>1, FS_Subset
<1>3. IsFiniteSet(S) /\ Cardinality(S) <= Cardinality(T)
    BY <1>2, FS_Subset
<1>. QED
    BY <1>2, <1>3, FS_CardinalityType

(* A step of a call keeps the codes that are spent.                        *)
LEMMA RunSpent ==
    ASSUME Shapes, SpentInv, NEW h \in Slots, CallRuns(h), Histories
    PROVE  SpentInv'
<1>1. /\ accepted' = accepted /\ Valid(db)' /\ OtpsKept(h)
      /\ lastKey' \in Nat /\ DOMAIN otp' \subseteq 1 .. lastKey'
  <2>1. accepted' = accepted + 0
      BY RunHistory
  <2>. QED
      BY <2>1 DEF CallRuns, KeptTables, Tables, SpentInv
<1>2. Spent \subseteq Spent'
  <2>1. ASSUME NEW c \in Spent
        PROVE  c \in DOMAIN otp' /\ (~otp'[c].unused \/ \E k \in Slots : Spends(request'[k].todo, c))
    <3>1. c \in DOMAIN otp /\ c \in DOMAIN otp'
        BY <1>1 DEF Spent, OtpsKept
    <3>2. CASE ~otp[c].unused \/ Spends(request[h].todo, c)
        BY <1>1, <3>1, <3>2 DEF OtpsKept
    <3>3. CASE \E k \in Slots : k # h /\ Spends(request[k].todo, c)
        BY <3>1, <3>3 DEF CallRuns, OthersStay
    <3>. QED
        BY <3>2, <3>3 DEF Spent
  <2>. QED
      BY <2>1 DEF Spent, Spends
<1>3. Spent' \subseteq 1 .. lastKey'
    BY <1>1 DEF Spent
<1>4. PICK S, T : S = Spent /\ T = Spent'
    OBVIOUS
<1>5. Cardinality(S) <= Cardinality(T) /\ Cardinality(S) \in Nat /\ Cardinality(T) \in Nat
    BY <1>1, <1>2, <1>3, <1>4, MoreMembers
<1>6. alone' => alone /\ accepted' <= Cardinality(T)
    BY <1>1, <1>4, <1>5 DEF Histories, SpentInv
<1>7. Cardinality(T) = Cardinality(Spent)'
    BY <1>4
<1>8. alone' \in BOOLEAN /\ accepted' \in Nat
    BY <1>1 DEF Histories, SpentInv
<1>9. alone' => \A j, k \in Slots : j # k => request'[j] = NoRequest \/ request'[k] = NoRequest
    BY DEF Histories
<1>. QED
    BY <1>1, <1>6, <1>7, <1>8, <1>9 DEF SpentInv

(* A token that an app holds or a call is to hand out.                     *)
LEMMA TokenStaysKnown ==
    ASSUME Shapes, NEW h \in Slots, TokensKept(h), ended \subseteq ended', NEW t \in 0 .. lastKey, NEW u,
           NEW since \in Nat \cup {Never}, KnownToken(t, u, since), since <= now,
           request[h].what \in Deletions => request[h].user \in ended,
           Revokes(request[h].todo, t) => since # Never
    PROVE  KnownToken(t, u, since)'
<1>1. lastKey \in Nat /\ now \in Nat
    BY DEF Shapes, Tables
<1>2. t \in DOMAIN token' => t \in DOMAIN token
    BY <1>1 DEF TokensKept
<1>3. CASE t \notin DOMAIN token
    BY <1>2, <1>3 DEF KnownToken
<1>4. CASE t \in DOMAIN token
  <2>1. token[t].user = u /\ (token[t].revoked = Never \/ u \in ended \/ (since # Never /\ since <= token[t].revoked))
      BY <1>4 DEF KnownToken
  <2>2. Removes(h, u) => u \in ended'
      BY DEF Removes
  <2>3. CASE t \notin DOMAIN token'
      BY <1>4, <2>1, <2>2, <2>3 DEF KnownToken, TokensKept
  <2>4. CASE t \in DOMAIN token'
    <3>1. /\ token'[t].user = u
          /\ \/ token'[t].revoked = token[t].revoked
             \/ token'[t].revoked = now /\ (Revokes(request[h].todo, t) \/ Removes(h, u))
        BY <1>4, <2>1, <2>4 DEF TokensKept
    <3>2. token'[t].revoked = Never \/ u \in ended' \/ (since # Never /\ since <= token'[t].revoked)
        BY <2>1, <2>2, <3>1
    <3>. QED
        BY <2>4, <3>1, <3>2 DEF KnownToken
  <2>. QED
      BY <2>3, <2>4
<1>. QED
    BY <1>3, <1>4

(* A step of a call keeps what the apps know of their tokens.              *)
LEMMA RunApps ==
    ASSUME Shapes, SessionInv, NEW h \in Slots, CallRuns(h), Histories
    PROVE  AppInv'
<1>1. /\ device' = device /\ now' = now /\ lastKey' >= lastKey /\ lastKey \in Nat /\ lastKey' \in Nat
      /\ TokensKept(h) /\ device \in [Apps -> [token : Nat, user : Nat, since : Nat \cup {Never}]]
    BY DEF CallRuns, KeptTables, Shapes, Tables
<1>2. ended \subseteq ended'
    BY EndedGrows
<1>3. request[h].what \in Deletions => request[h].user \in ended
    BY DEF SessionInv
<1>4. ASSUME NEW d \in Apps, device[d].token # None
      PROVE  /\ device[d].token <= lastKey'
             /\ KnownToken(device[d].token, device[d].user, device[d].since)'
             /\ \A e \in Apps : e # d => device[e].token # device[d].token
             /\ \A k \in Slots : request'[k].token # device[d].token
             /\ \A k \in Slots : Revokes(request'[k].todo, device[d].token) => device[d].since # Never
  <2>1. PICK t, u, s : t = device[d].token /\ u = device[d].user /\ s = device[d].since
      OBVIOUS
  <2>2. /\ t \in Nat /\ t <= lastKey /\ KnownToken(t, u, s) /\ s \in Nat \cup {Never} /\ s <= now
        /\ \A e \in Apps : e # d => device[e].token # t
        /\ \A k \in Slots : request[k].token # t
        /\ \A k \in Slots : Revokes(request[k].todo, t) => s # Never
      BY <1>1, <1>4, <2>1 DEF SessionInv, AppInv
  <2>3. t \in 0 .. lastKey
      BY <1>1, <2>2
  <2>4. KnownToken(t, u, s)'
      BY <1>1, <1>2, <1>3, <2>2, <2>3, TokenStaysKnown
  <2>5. KnownToken(device[d].token, device[d].user, device[d].since)'
      BY <1>1, <2>1, <2>4 DEF KnownToken
  <2>6. ASSUME NEW k \in Slots
        PROVE  request'[k].token # t /\ (Revokes(request'[k].todo, t) => s # Never)
    <3>1. CASE k # h
        BY <2>2, <3>1 DEF CallRuns, OthersStay
    <3>2. CASE k = h /\ request'[h] = NoRequest
        BY <1>4, <2>1, <3>2, NoRequestIs, NothingToDo
    <3>3. CASE k = h /\ GoesOn(h)
        BY <1>1, <2>2, <3>3 DEF GoesOn
    <3>. QED
        BY <3>1, <3>2, <3>3 DEF CallRuns
  <2>. QED
      BY <1>1, <2>1, <2>2, <2>5, <2>6
<1>5. \A d \in Apps : device'[d].since <= now'
    BY <1>1 DEF SessionInv, AppInv
<1>. QED
    BY <1>1, <1>4, <1>5 DEF AppInv, KnownToken, Revokes

(* A step of a call keeps what calls know of the tokens they hand out.     *)
LEMMA RunTokens ==
    ASSUME Shapes, SessionInv, NEW h \in Slots, CallRuns(h), Histories, NEW k \in Slots, request'[k].token # None
    PROVE  /\ AllLate(request'[k].todo)
           /\ KnownToken(request[k].token, request[k].user, Never)'
           /\ \A j \in Slots : j # k => request'[j].token # request'[k].token
           /\ \A j \in Slots : ~ Revokes(request'[j].todo, request'[k].token)
<1>1. /\ lastKey' >= lastKey /\ lastKey \in Nat /\ lastKey' \in Nat /\ now \in Nat /\ TokensKept(h)
      /\ OthersStay(h) /\ (request'[h] = NoRequest \/ GoesOn(h))
    BY DEF CallRuns, KeptTables, Shapes, Tables
<1>2. ended \subseteq ended'
    BY EndedGrows
<1>3. request[h].what \in Deletions => request[h].user \in ended
    BY DEF SessionInv
<1>4. \A j \in Slots : request[j].token \in 0 .. lastKey
    BY DEF Shapes, IsRequest
<1>5. \A j \in Slots : \A t \in Nat : Revokes(request'[j].todo, t) => t <= lastKey
  <2>1. TAKE j \in Slots
  <2>2. CASE j # h
      BY <1>1, <2>2 DEF SessionInv, OthersStay
  <2>3. CASE j = h /\ request'[h] = NoRequest
      BY <2>3, NoRequestIs, NothingToDo
  <2>4. CASE j = h /\ GoesOn(h)
      BY <2>4 DEF SessionInv, GoesOn
  <2>. QED
      BY <1>1, <2>2, <2>3, <2>4
<1>6. CASE request'[k].token = request[k].token /\ AllLate(request'[k].todo) /\ request'[k].user = request[k].user
  <2>1. PICK t, u : t = request[k].token /\ u = request[k].user
      OBVIOUS
  <2>2. /\ t # None /\ t \in 0 .. lastKey /\ KnownToken(t, u, Never)
        /\ \A j \in Slots : j # k => request[j].token # t
        /\ \A j \in Slots : ~ Revokes(request[j].todo, t)
      BY <1>4, <1>6, <2>1 DEF SessionInv
  <2>3. Never \in Nat \cup {Never} /\ Never <= now
      BY <1>1 DEF Never
  <2>4. KnownToken(t, u, Never)'
      BY <1>1, <1>2, <1>3, <2>2, <2>3, TokenStaysKnown
  <2>5. KnownToken(request[k].token, request[k].user, Never)'
      BY <1>6, <2>1, <2>4 DEF KnownToken
  <2>6. ASSUME NEW j \in Slots
        PROVE  (j # k => request'[j].token # t) /\ ~ Revokes(request'[j].todo, t)
    <3>1. CASE j # h
        BY <1>1, <2>2, <3>1 DEF OthersStay
    <3>2. CASE j = h /\ request'[h] = NoRequest
        BY <2>2, <3>2, NoRequestIs, NothingToDo
    <3>3. CASE j = h /\ GoesOn(h)
      <4>1. request'[j].token = request[j].token \/ request'[j].token > lastKey
          BY <3>3 DEF GoesOn
      <4>. QED
          BY <1>1, <2>2, <3>3, <4>1 DEF GoesOn
    <3>. QED
        BY <1>1, <3>1, <3>2, <3>3
  <2>. QED
      BY <1>6, <2>1, <2>5, <2>6
<1>7. CASE k # h
  <2>1. request'[k] = request[k]
      BY <1>1, <1>7 DEF OthersStay
  <2>2. AllLate(request[k].todo)
      BY <1>7, <2>1 DEF SessionInv
  <2>. QED
      BY <1>6, <2>1, <2>2
<1>8. CASE k = h
  <2>1. GoesOn(h)
      BY <1>1, <1>8, NoRequestIs
  <2>2. CASE request'[h].token = request[h].token
    <3>1. AllLate(request[h].todo)
        BY <1>8, <2>2 DEF SessionInv
    <3>. QED
        BY <1>6, <1>8, <2>1, <2>2, <3>1 DEF GoesOn
  <2>3. CASE request'[h].token # request[h].token
    <3>1. PICK t : t = request'[h].token
        OBVIOUS
    <3>2. /\ t > lastKey /\ AllLate(request'[h].todo) /\ t \in DOMAIN token'
          /\ token'[t] = [user |-> request'[h].user, revoked |-> Never]
        BY <2>1, <2>3, <3>1 DEF GoesOn
    <3>3. KnownToken(request[h].token, request[h].user, Never)'
        BY <3>1, <3>2 DEF KnownToken
    <3>4. t \in Nat
      <4>1. request'[h].token \in 0 .. lastKey'
          BY <2>1 DEF GoesOn, IsRequest
      <4>. QED
          BY <1>1, <3>1, <4>1
    <3>5. \A j \in Slots : j # h => request'[j].token # t
        BY <1>1, <1>4, <3>2 DEF OthersStay
    <3>6. \A j \in Slots : ~ Revokes(request'[j].todo, t)
        BY <1>1, <1>5, <3>2, <3>4
    <3>. QED
        BY <1>8, <3>1, <3>2, <3>3, <3>5, <3>6
  <2>. QED
      BY <2>2, <2>3
<1>. QED
    BY <1>7, <1>8

(* A step of a call keeps the invariant.                                   *)
LEMMA RunKeeps ==
    ASSUME AccountInv, NEW h \in Slots, CallRuns(h), Histories
    PROVE  AccountInv'
<1>1. Shapes' /\ CodeInv' /\ EnrolInv' /\ SpentInv'
    BY RunShapes, RunCode, RunEnrol, RunSpent DEF AccountInv
<1>2. /\ lastKey' >= lastKey /\ lastKey \in Nat /\ lastKey' \in Nat /\ now' = now /\ now \in Nat /\ TokensKept(h)
      /\ OthersStay(h) /\ (request'[h] = NoRequest \/ GoesOn(h))
      /\ Shapes /\ SessionInv
    BY DEF CallRuns, KeptTables, Shapes, Tables, AccountInv
<1>3. AppInv'
    BY <1>2, RunApps
<1>4. \A t \in DOMAIN token' : token'[t].revoked <= now'
    BY <1>2 DEF SessionInv, TokensKept, Never
<1>5. ASSUME NEW k \in Slots
      PROVE  /\ request'[k].what \in Deletions => request'[k].user \in ended'
             /\ \A t \in Nat : Revokes(request'[k].todo, t) => t <= lastKey'
  <2>1. request'[k].what \in Deletions => request'[k].user \in ended'
      BY EndedGrows
  <2>2. \A t \in Nat : Revokes(request'[k].todo, t) => t <= lastKey
    <3>1. CASE k # h
        BY <1>2, <3>1 DEF SessionInv, OthersStay
    <3>2. CASE k = h /\ request'[h] = NoRequest
        BY <3>2, NoRequestIs, NothingToDo
    <3>3. CASE k = h /\ GoesOn(h)
        BY <1>2, <3>3 DEF SessionInv, GoesOn
    <3>. QED
        BY <1>2, <3>1, <3>2, <3>3
  <2>. QED
      BY <1>2, <2>1, <2>2
<1>6. ASSUME NEW k \in Slots, request'[k].token # None
      PROVE  /\ AllLate(request'[k].todo)
             /\ KnownToken(request[k].token, request[k].user, Never)'
             /\ \A j \in Slots : j # k => request'[j].token # request'[k].token
             /\ \A j \in Slots : ~ Revokes(request'[j].todo, request'[k].token)
    BY <1>2, <1>6, RunTokens
<1>7. SessionInv'
    BY <1>3, <1>4, <1>5, <1>6 DEF SessionInv, KnownToken, Revokes, AllLate
<1>. QED
    BY <1>1, <1>7 DEF AccountInv

-----------------------------------------------------------------------------
(* A call ends: it was answered, or cut short.                             *)

(* Where the tables stay, they keep their shapes.                          *)
LEMMA SameRows ==
    ASSUME Shapes, Valid(db), UNCHANGED <<db, now, lastKey>>, cuts' \in Nat,
           device' \in [Apps -> [token : Nat, user : Nat, since : Nat \cup {Never}]]
    PROVE  /\ Tables' /\ Valid(db)'
           /\ user' = user /\ profile' = profile /\ token' = token /\ otp' = otp
<1>1. user' = user /\ profile' = profile /\ token' = token /\ otp' = otp /\ documents' = documents /\ address' = address
    BY DEF user, profile, token, otp, documents, address
<1>2. Tables'
    BY <1>1 DEF Shapes, Tables
<1>3. PICK d : d = db
    OBVIOUS
<1>4. Valid(d) /\ db' = d
    BY <1>3
<1>. QED
    BY <1>1, <1>2, <1>4 DEF Valid

(* A call that ends, and how.                                              *)
Stops(h) ==
    /\ request[h] # NoRequest /\ request'[h] = NoRequest /\ OthersStay(h)
    /\ UNCHANGED <<db, now, lastKey>>
    /\ \/ cuts' = cuts + 1 /\ device' = device
       \/ cuts' = cuts /\ ~ Busy(h) /\ Answer(h)

(* An answer, or its loss, ends a call.                                    *)
LEMMA AnswerStops ==
    ASSUME Shapes, NEW h \in Slots, Answer(h) \/ Cut(h)
    PROVE  Stops(h)
<1>1. request[h] # NoRequest /\ Ends(h) /\ UNCHANGED <<db, now, lastKey>>
    BY DEF Answer, Cut
<1>2. CASE Answer(h)
    BY <1>1, <1>2, EndsIs DEF Stops, Answer
<1>3. CASE Cut(h)
    BY <1>1, <1>3, EndsIs DEF Stops, Cut
<1>. QED
    BY <1>2, <1>3

(* What an answer leaves an app with.                                      *)
LEMMA AnsweredApps ==
    ASSUME Shapes, NEW h \in Slots, Answer(h)
    PROVE  /\ device' \in [Apps -> [token : Nat, user : Nat, since : Nat \cup {Never}]]
           /\ \A d \in Apps :
                \/ device'[d] = device[d]
                \/ /\ device'[d] = SignedOut /\ request[h].what = "deleteAccount"
                   /\ device[d].user = request[h].user
                \/ /\ device'[d] = [token |-> request[h].token, user |-> request[h].user, since |-> Never]
                   /\ request[h].token # None /\ d = request[h].at
<1>1. PICK c : c = request[h]
    OBVIOUS
<1>2. /\ device \in [Apps -> [token : Nat, user : Nat, since : Nat \cup {Never}]]
      /\ c.user \in Nat /\ c.token \in Nat
    BY <1>1 DEF Shapes, Tables, IsRequest
<1>3. SignedOut \in [token : Nat, user : Nat, since : Nat \cup {Never}]
    BY DEF SignedOut, None
<1>4. [token |-> c.token, user |-> c.user, since |-> Never] \in [token : Nat, user : Nat, since : Nat \cup {Never}]
    BY <1>2
<1>5. CASE c.what = "deleteAccount"
  <2>1. device' = [device EXCEPT ![c.at] = IF @.user = c.user THEN SignedOut ELSE @]
      BY <1>1, <1>5 DEF Answer
  <2>. QED
      BY <1>1, <1>2, <1>3, <1>5, <2>1
<1>6. CASE c.what # "deleteAccount" /\ c.token = None
    BY <1>1, <1>2, <1>6 DEF Answer
<1>7. CASE c.what # "deleteAccount" /\ c.token # None
  <2>1. device' = [device EXCEPT ![c.at] = [token |-> c.token, user |-> c.user, since |-> Never]]
      BY <1>1, <1>7 DEF Answer
  <2>. QED
      BY <1>1, <1>2, <1>4, <1>7, <2>1
<1>. QED
    BY <1>5, <1>6, <1>7

(* The end of a call leaves the tables alone.                              *)
LEMMA StopRows ==
    ASSUME Shapes, Valid(db), NEW h \in Slots, Stops(h)
    PROVE  /\ Tables' /\ Valid(db)'
           /\ user' = user /\ profile' = profile /\ token' = token /\ otp' = otp
<1>1. device' \in [Apps -> [token : Nat, user : Nat, since : Nat \cup {Never}]]
    BY AnsweredApps DEF Stops, Shapes, Tables
<1>2. cuts' \in Nat
    BY DEF Stops, Shapes, Tables
<1>. QED
    BY <1>1, <1>2, SameRows DEF Stops

(* A freed slot keeps its shape.                                           *)
LEMMA NoRequestStays ==
    ASSUME Tables'
    PROVE  IsRequest(NoRequest)'
<1>1. lastKey' \in Nat
    BY DEF Tables
<1>. QED
    BY <1>1, NoRequestIs, NoRequestList DEF IsRequest, IsList, None

(* The end of a call keeps all shapes.                                     *)
LEMMA StopShapes ==
    ASSUME Shapes, Valid(db), NEW h \in Slots, Stops(h)
    PROVE  Shapes'
<1>1. Tables' /\ lastKey' >= lastKey
    BY StopRows DEF Stops, Shapes, Tables
<1>2. \A k \in Slots : k # h => IsRequest(request[k])'
    BY <1>1, RequestStays DEF Stops, OthersStay
<1>3. IsRequest(request[h])'
    BY <1>1, NoRequestStays DEF Stops, IsRequest, IsList
<1>. QED
    BY <1>1, <1>2, <1>3 DEF Shapes, Stops, OthersStay

(* What the end of a call adds to the history.                             *)
LEMMA StopHistory ==
    ASSUME Shapes, NEW h \in Slots, Stops(h), Histories
    PROVE  /\ LetIn = {} /\ accepted' = accepted + 0
           /\ \A k \in Slots : Answered(k) => k = h /\ cuts' = cuts /\ request[h].todo = <<>>
           /\ told' \subseteq told \cup {<<request[h].user, request[h].code>>}
           /\ told' = told \/ request[h].code # None
           /\ enrolled' \subseteq enrolled \cup {request[h].user}
           /\ enrolled' = enrolled \/ (request[h].what \in Enrols /\ request[h].todo = <<>>)
<1>1. \A k \in Slots : Answered(k) => k = h /\ cuts' = cuts /\ request[h].todo = <<>>
    BY DEF Answered, Stops, OthersStay, Busy
<1>2. LetIn = {}
  <2>1. \A k \in Slots : request[k] = NoRequest => request'[k] = NoRequest
      BY DEF Stops, OthersStay
  <2>. QED
      BY <2>1, NoRequestIs DEF LetIn
<1>3. Told \subseteq {h} /\ (Told # {} => request[h].code # None)
    BY <1>1 DEF Told
<1>4. Enrolling \subseteq {h} /\ (Enrolling # {} => request[h].what \in Enrols /\ request[h].todo = <<>>)
    BY <1>1 DEF Enrolling, Enrols
<1>. QED
    BY <1>1, <1>2, <1>3, <1>4 DEF Histories

(* An answer tells a code that is the user's.                              *)
LEMMA StopCode ==
    ASSUME Shapes, Valid(db), CodeInv, NEW h \in Slots, Stops(h), Histories
    PROVE  CodeInv'
<1>1. lastKey' = lastKey /\ user' = user
    BY StopRows DEF Stops
<1>2. ASSUME NEW t \in told'
      PROVE  t[1] \in 0 .. lastKey' /\ t[2] # None /\ (t[1] \in DOMAIN user' => user'[t[1]].code = t[2])
  <2>1. CASE t \in told
      BY <1>1, <2>1 DEF CodeInv
  <2>2. CASE t \notin told
    <3>1. t = <<request[h].user, request[h].code>> /\ request[h].code # None
        BY <2>2, StopHistory
    <3>2. request[h].user \in 0 .. lastKey
        BY DEF Shapes, IsRequest
    <3>. QED
        BY <1>1, <3>1, <3>2 DEF CodeInv
  <2>. QED
      BY <2>1, <2>2
<1>3. ASSUME NEW k \in Slots, request'[k].code # None
      PROVE  /\ AllLate(request'[k].todo)
             /\ request'[k].user \in DOMAIN user' => user'[request'[k].user].code = request'[k].code
  <2>1. k # h /\ request'[k] = request[k]
      BY <1>3, NoRequestIs DEF Stops, OthersStay
  <2>. QED
      BY <1>1, <1>3, <2>1 DEF CodeInv
<1>. QED
    BY <1>2, <1>3 DEF CodeInv, AllLate

(* Whoever's answer enrolls him has the row.                               *)
LEMMA StopEnrol ==
    ASSUME Shapes, Valid(db), EnrolInv, NEW h \in Slots, Stops(h), Histories
    PROVE  EnrolInv'
<1>1. lastKey' = lastKey /\ user' = user /\ profile' = profile
    BY StopRows DEF Stops
<1>2. request[h].user \in 0 .. lastKey
    BY DEF Shapes, IsRequest
<1>3. enrolled' \subseteq enrolled \cup {request[h].user}
    BY StopHistory
<1>4. enrolled' \subseteq 0 .. lastKey'
    BY <1>1, <1>2, <1>3 DEF EnrolInv
<1>5. enrolled' # enrolled /\ request[h].user \in DOMAIN user => request[h].user \in DOMAIN profile
  <2>1. ASSUME enrolled' # enrolled PROVE request[h].user \in DOMAIN user => request[h].user \in DOMAIN profile
    <3>1. request[h].what \in Enrols /\ request[h].todo = <<>>
        BY <2>1, StopHistory
    <3>2. Len(request[h].todo) = 0
        BY <3>1
    <3>3. ~ WillEnrol(request[h].todo)
        BY <3>2, NothingToDo
    <3>. QED
        BY <3>1, <3>3 DEF EnrolInv
  <2>. QED
      BY <2>1
<1>6. \A u \in enrolled' \cap DOMAIN user' : u \in DOMAIN profile'
    BY <1>1, <1>3, <1>5 DEF EnrolInv, EnrolledHasProfile
<1>7. EnrolledHasProfile'
    BY <1>6 DEF EnrolledHasProfile
<1>8. ASSUME NEW k \in Slots, request'[k].what \in Enrols
      PROVE  \/ WillEnrol(request'[k].todo)
             \/ /\ AllLate(request'[k].todo)
                /\ request'[k].user \in DOMAIN user' => request'[k].user \in DOMAIN profile'
  <2>1. k # h /\ request'[k] = request[k]
      BY <1>8, NoRequestIs DEF Stops, OthersStay, Enrols
  <2>. QED
      BY <1>1, <1>8, <2>1 DEF EnrolInv
<1>. QED
    BY <1>4, <1>7, <1>8 DEF EnrolInv, AllLate, WillEnrol

(* An answer spends no code.                                               *)
LEMMA StopSpent ==
    ASSUME Shapes, SpentInv, NEW h \in Slots, Stops(h), Histories
    PROVE  SpentInv'
<1>1. accepted' = accepted /\ otp' = otp /\ Valid(db)'
  <2>1. accepted' = accepted + 0
      BY StopHistory
  <2>2. otp' = otp /\ Valid(db)'
      BY StopRows DEF SpentInv
  <2>. QED
      BY <2>1, <2>2 DEF SpentInv
<1>2. alone' \in BOOLEAN /\ (alone' => alone /\ cuts' = cuts) /\ (\A j, k \in Slots : alone' /\ j # k => request'[j] = NoRequest \/ request'[k] = NoRequest)
    BY DEF Histories, SpentInv
<1>3. ASSUME alone' PROVE accepted' <= Cardinality(Spent')
  <2>1. cuts' = cuts /\ cuts \in Nat
      BY <1>2, <1>3 DEF Shapes, Tables
  <2>2. request[h].todo = <<>>
      BY <2>1 DEF Stops, Busy
  <2>3. Len(request[h].todo) = 0
      BY <2>2
  <2>4. \A c : ~ Spends(request[h].todo, c)
      BY <2>3, NothingToDo
  <2>5. \A c : ~ Spends(request'[h].todo, c)
      BY NoRequestIs, NothingToDo DEF Stops
  <2>6. \A c : (\E k \in Slots : Spends(request[k].todo, c)) <=> (\E k \in Slots : Spends(request'[k].todo, c))
      BY <2>4, <2>5 DEF Stops, OthersStay
  <2>7. Spent' = {c \in DOMAIN otp : ~otp[c].unused \/ \E k \in Slots : Spends(request'[k].todo, c)}
      BY <1>1 DEF Spent, Spends
  <2>8. Spent' = Spent
      BY <2>6, <2>7 DEF Spent
  <2>. QED
      BY <1>1, <1>2, <1>3, <2>8 DEF SpentInv
<1>. QED
    BY <1>1, <1>2, <1>3 DEF SpentInv

(* Where the tokens stay, so does what is known of them.                   *)
LEMMA SameKnown ==
    ASSUME NEW t, NEW u, NEW since, KnownToken(t, u, since), token' = token, ended \subseteq ended'
    PROVE  KnownToken(t, u, since)'
BY DEF KnownToken

(* An app that takes the token of an answer has one that is live and its   *)
(* own.                                                                    *)
LEMMA StopApps ==
    ASSUME Shapes, Valid(db), SessionInv, NEW h \in Slots, Stops(h), Histories
    PROVE  AppInv'
<1>1. /\ lastKey' = lastKey /\ now' = now /\ token' = token /\ ended \subseteq ended' /\ OthersStay(h)
      /\ request'[h] = NoRequest /\ now \in Nat
    BY StopRows, EndedGrows DEF Stops, Shapes, Tables
<1>2. \A k \in Slots : request'[k] = request[k] \/ request'[k] = NoRequest
    BY <1>1 DEF OthersStay
<1>3. \A t : t # None /\ (\A k \in Slots : request[k].token # t) => (\A k \in Slots : request'[k].token # t)
    BY <1>2, NoRequestIs
<1>4. \A t, k : k \in Slots /\ Revokes(request'[k].todo, t) => Revokes(request[k].todo, t)
    BY <1>2, NoRequestIs, NothingToDo
<1>5. \A d \in Apps :
        \/ device'[d] = device[d]
        \/ device'[d] = SignedOut
        \/ /\ device'[d] = [token |-> request[h].token, user |-> request[h].user, since |-> Never]
           /\ request[h].token # None /\ d = request[h].at
    BY AnsweredApps DEF Stops
<1>6. SignedOut.token = None /\ SignedOut.since = Never
    BY DEF SignedOut
<1>7. \A d \in Apps : device'[d].since <= now'
    BY <1>1, <1>5, <1>6 DEF SessionInv, AppInv, Never
<1>8. ASSUME NEW d \in Apps, device'[d].token # None
      PROVE  /\ device'[d].token <= lastKey'
             /\ KnownToken(device[d].token, device[d].user, device[d].since)'
             /\ \A e \in Apps : e # d => device'[e].token # device'[d].token
             /\ \A k \in Slots : request'[k].token # device'[d].token
             /\ \A k \in Slots : Revokes(request'[k].todo, device'[d].token) => device'[d].since # Never
  <2>1. PICK t, u, s : t = device'[d].token /\ u = device'[d].user /\ s = device'[d].since
      OBVIOUS
  <2>2. CASE device'[d] = device[d]
    <3>1. /\ t <= lastKey /\ KnownToken(t, u, s)
          /\ \A e \in Apps : e # d => device[e].token # t
          /\ \A k \in Slots : request[k].token # t
          /\ \A k \in Slots : Revokes(request[k].todo, t) => s # Never
        BY <1>8, <2>1, <2>2 DEF SessionInv, AppInv
    <3>2. KnownToken(t, u, s)'
        BY <1>1, <3>1, SameKnown
    <3>3. KnownToken(device[d].token, device[d].user, device[d].since)'
        BY <2>1, <3>2 DEF KnownToken
    <3>4. \A e \in Apps : e # d => device'[e].token # t
        BY <1>5, <1>6, <1>8, <2>1, <3>1
    <3>5. \A k \in Slots : request'[k].token # t
        BY <1>3, <1>8, <2>1, <3>1
    <3>. QED
        BY <1>1, <1>4, <2>1, <3>1, <3>3, <3>4, <3>5
  <2>3. CASE /\ device'[d] = [token |-> request[h].token, user |-> request[h].user, since |-> Never]
             /\ request[h].token # None /\ d = request[h].at
    <3>1. t = request[h].token /\ u = request[h].user /\ s = Never /\ t # None
        BY <2>1, <2>3
    <3>2. t \in 0 .. lastKey /\ lastKey \in Nat
        BY <3>1 DEF Shapes, IsRequest, Tables
    <3>3. /\ KnownToken(t, u, s)
          /\ \A k \in Slots : k # h => request[k].token # t
          /\ \A k \in Slots : ~ Revokes(request[k].todo, t)
        BY <3>1 DEF SessionInv
    <3>4. \A e \in Apps : device[e].token # t
        BY <3>1 DEF SessionInv, AppInv
    <3>5. KnownToken(t, u, s)'
        BY <1>1, <3>3, SameKnown
    <3>6. KnownToken(device[d].token, device[d].user, device[d].since)'
        BY <2>1, <3>5 DEF KnownToken
    <3>7. \A e \in Apps : e # d => device'[e].token # t
        BY <1>5, <1>6, <2>3, <3>1, <3>4
    <3>8. \A k \in Slots : request'[k].token # t
        BY <1>1, <3>1, <3>3, NoRequestIs DEF OthersStay
    <3>. QED
        BY <1>1, <1>4, <2>1, <3>2, <3>3, <3>6, <3>7, <3>8
  <2>. QED
      BY <1>5, <1>6, <1>8, <2>2, <2>3
<1>. QED
    BY <1>7, <1>8 DEF AppInv, KnownToken, Revokes

(* The end of a call keeps the invariant.                                  *)
LEMMA StopKeeps ==
    ASSUME AccountInv, NEW h \in Slots, Stops(h), Histories
    PROVE  AccountInv'
<1>1. Shapes /\ Valid(db) /\ CodeInv /\ EnrolInv /\ SpentInv /\ SessionInv
    BY DEF AccountInv, SpentInv
<1>2. Shapes' /\ CodeInv' /\ EnrolInv' /\ SpentInv' /\ AppInv'
    BY <1>1, StopShapes, StopCode, StopEnrol, StopSpent, StopApps
<1>3. /\ lastKey' = lastKey /\ now' = now /\ token' = token /\ ended \subseteq ended'
      /\ \A k \in Slots : request'[k] = request[k] \/ request'[k] = NoRequest
    BY <1>1, StopRows, EndedGrows DEF Stops, OthersStay
<1>4. \A t, k : k \in Slots /\ Revokes(request'[k].todo, t) => Revokes(request[k].todo, t)
    BY <1>3, NoRequestIs, NothingToDo
<1>5. \A t \in DOMAIN token' : token'[t].revoked <= now'
    BY <1>1, <1>3 DEF SessionInv
<1>6. ASSUME NEW k \in Slots
      PROVE  /\ request'[k].what \in Deletions => request'[k].user \in ended'
             /\ \A t \in Nat : Revokes(request'[k].todo, t) => t <= lastKey'
    BY <1>1, <1>3, <1>4, EndedGrows DEF SessionInv
<1>7. ASSUME NEW k \in Slots, request'[k].token # None
      PROVE  /\ AllLate(request'[k].todo)
             /\ KnownToken(request[k].token, request[k].user, Never)'
             /\ \A j \in Slots : j # k => request'[j].token # request'[k].token
             /\ \A j \in Slots : ~ Revokes(request'[j].todo, request'[k].token)
  <2>1. request'[k] = request[k]
      BY <1>3, <1>7, NoRequestIs
  <2>2. PICK t, u : t = request[k].token /\ u = request[k].user
      OBVIOUS
  <2>3. /\ AllLate(request[k].todo) /\ KnownToken(t, u, Never)
        /\ \A j \in Slots : j # k => request[j].token # t
        /\ \A j \in Slots : ~ Revokes(request[j].todo, t)
      BY <1>1, <1>7, <2>1, <2>2 DEF SessionInv
  <2>4. KnownToken(t, u, Never)'
      BY <1>3, <2>3, SameKnown
  <2>5. KnownToken(request[k].token, request[k].user, Never)'
      BY <2>1, <2>2, <2>4 DEF KnownToken
  <2>. QED
      BY <1>3, <1>4, <1>7, <2>1, <2>2, <2>3, <2>5, NoRequestIs
<1>8. SessionInv'
    BY <1>2, <1>5, <1>6, <1>7 DEF SessionInv, KnownToken, Revokes, AllLate
<1>. QED
    BY <1>1, <1>2, <1>8 DEF AccountInv

-----------------------------------------------------------------------------
(* A call begins.                                                          *)

(* The calls that a code lets in.                                          *)
LetsIn == {"verifyOtp", "resetPassword"}

(* A call that begins.                                                     *)
Opens(h) ==
    /\ request[h] = NoRequest /\ OthersStay(h)
    /\ UNCHANGED <<db, now, lastKey, cuts>>
    /\ request'[h].token = None /\ request'[h].code = None
    /\ IsRequest(request[h])'
    /\ request'[h].what \in Enrols => WillEnrol(request'[h].todo)
    /\ request'[h].what \in LetsIn => \E c \in DOMAIN otp : otp[c].unused /\ Spends(request'[h].todo, c)
    /\ \/ device' = device /\ \A t : ~ Revokes(request'[h].todo, t)
       \/ \E d \in Apps : /\ device[d].token # None /\ device' = Tried(d)
                          /\ \A t : Revokes(request'[h].todo, t) => t = device[d].token

(* An app that tries its token remembers since when.                       *)
LEMMA TriedIs ==
    ASSUME Shapes, NEW d \in Apps
    PROVE  /\ Tried(d) \in [Apps -> [token : Nat, user : Nat, since : Nat \cup {Never}]]
           /\ \A e \in Apps : /\ Tried(d)[e].token = device[e].token /\ Tried(d)[e].user = device[e].user
                              /\ e # d => Tried(d)[e] = device[e]
           /\ Tried(d)[d].since # Never
           /\ Tried(d)[d].since = device[d].since \/ (device[d].since = Never /\ Tried(d)[d].since = now)
<1>1. device \in [Apps -> [token : Nat, user : Nat, since : Nat \cup {Never}]] /\ now \in Nat
    BY DEF Shapes, Tables
<1>2. PICK s : s = IF device[d].since = Never THEN now ELSE device[d].since
    OBVIOUS
<1>3. s \in Nat \cup {Never} /\ s # Never
    BY <1>1, <1>2 DEF Never
<1>4. Tried(d) = [device EXCEPT ![d].since = s]
    BY <1>2 DEF Tried
<1>5. Tried(d) = [e \in Apps |-> IF e = d THEN [device[d] EXCEPT !.since = s] ELSE device[e]]
    BY <1>1, <1>4
<1>6. PICK r : r = [device[d] EXCEPT !.since = s]
    OBVIOUS
<1>7. r \in [token : Nat, user : Nat, since : Nat \cup {Never}] /\ r.token = device[d].token /\ r.user = device[d].user /\ r.since = s
    BY <1>1, <1>3, <1>6
<1>8. Tried(d) = [e \in Apps |-> IF e = d THEN r ELSE device[e]]
    BY <1>5, <1>6
<1>. QED
    BY <1>1, <1>2, <1>3, <1>7, <1>8

(* What a call that begins leaves the apps with.                           *)
LEMMA OpenApps ==
    ASSUME Shapes, SessionInv, NEW h \in Slots, Opens(h)
    PROVE  /\ device' \in [Apps -> [token : Nat, user : Nat, since : Nat \cup {Never}]]
           /\ \A e \in Apps :
                /\ device'[e].token = device[e].token /\ device'[e].user = device[e].user
                /\ device'[e].since = device[e].since \/ (device[e].since = Never /\ device'[e].since = now)
                /\ \A t : device[e].token # None /\ Revokes(request'[h].todo, t) /\ t = device[e].token => device'[e].since # Never
           /\ \A t : Revokes(request'[h].todo, t) => \E d \in Apps : device[d].token = t /\ t # None
<1>1. CASE device' = device /\ \A t : ~ Revokes(request'[h].todo, t)
    BY <1>1 DEF Shapes, Tables
<1>2. ASSUME NEW d \in Apps, device[d].token # None, device' = Tried(d),
             \A t : Revokes(request'[h].todo, t) => t = device[d].token
      PROVE  /\ device' \in [Apps -> [token : Nat, user : Nat, since : Nat \cup {Never}]]
             /\ \A e \in Apps :
                  /\ device'[e].token = device[e].token /\ device'[e].user = device[e].user
                  /\ device'[e].since = device[e].since \/ (device[e].since = Never /\ device'[e].since = now)
                  /\ \A t : device[e].token # None /\ Revokes(request'[h].todo, t) /\ t = device[e].token => device'[e].since # Never
             /\ \A t : Revokes(request'[h].todo, t) => \E f \in Apps : device[f].token = t /\ t # None
  <2>1. /\ device' \in [Apps -> [token : Nat, user : Nat, since : Nat \cup {Never}]]
        /\ \A e \in Apps : /\ device'[e].token = device[e].token /\ device'[e].user = device[e].user
                           /\ e # d => device'[e] = device[e]
        /\ device'[d].since # Never
        /\ device'[d].since = device[d].since \/ (device[d].since = Never /\ device'[d].since = now)
      BY <1>2, TriedIs
  <2>2. \A e \in Apps : e # d => device[e].token # device[d].token
      BY <1>2 DEF SessionInv, AppInv
  <2>3. \A e \in Apps : device'[e].since = device[e].since \/ (device[e].since = Never /\ device'[e].since = now)
      BY <2>1
  <2>4. \A e \in Apps : \A t : device[e].token # None /\ Revokes(request'[h].todo, t) /\ t = device[e].token => device'[e].since # Never
      BY <1>2, <2>1, <2>2
  <2>. QED
      BY <1>2, <2>1, <2>3, <2>4
<1>. QED
    BY <1>1, <1>2 DEF Opens

(* A call that begins leaves the tables alone.                             *)
LEMMA OpenRows ==
    ASSUME Shapes, SessionInv, Valid(db), NEW h \in Slots, Opens(h)
    PROVE  /\ Tables' /\ Valid(db)' /\ Shapes'
           /\ user' = user /\ profile' = profile /\ token' = token /\ otp' = otp
<1>1. cuts' \in Nat
    BY DEF Opens, Shapes, Tables
<1>2. /\ Tables' /\ Valid(db)'
      /\ user' = user /\ profile' = profile /\ token' = token /\ otp' = otp
    BY <1>1, OpenApps, SameRows DEF Opens
<1>3. lastKey' >= lastKey
    BY DEF Opens, Shapes, Tables
<1>4. \A k \in Slots : k # h => IsRequest(request[k])'
    BY <1>2, <1>3, RequestStays DEF Opens, OthersStay
<1>5. \A k \in Slots : IsRequest(request[k])'
    BY <1>4 DEF Opens
<1>6. Shapes'
    BY <1>2, <1>5 DEF Shapes, Opens, OthersStay
<1>. QED
    BY <1>2, <1>6

(* A call that begins answers nobody.                                      *)
LEMMA OpenHistory ==
    ASSUME NEW h \in Slots, Opens(h), Histories
    PROVE  /\ told' = told /\ enrolled' = enrolled
           /\ LetIn # {} => request'[h].what \in LetsIn
<1>1. \A k \in Slots : ~ Answered(k)
    BY DEF Opens, Answered, OthersStay
<1>2. Told = {} /\ Enrolling = {}
    BY <1>1 DEF Told, Enrolling
<1>3. \A k \in LetIn : k = h /\ request'[h].what \in LetsIn
    BY NoRequestIs DEF LetIn, LetsIn, Opens, OthersStay
<1>. QED
    BY <1>2, <1>3 DEF Histories

(* A call that a code lets in spends one that was not spent before.        *)
LEMMA OpenSpent ==
    ASSUME Shapes, SessionInv, SpentInv, NEW h \in Slots, Opens(h), Histories
    PROVE  SpentInv'
<1>1. otp' = otp /\ Valid(db)' /\ DOMAIN otp \subseteq 1 .. lastKey /\ lastKey \in Nat
    BY OpenRows DEF SpentInv, Shapes, Tables
<1>2. /\ alone' \in BOOLEAN /\ (alone' => alone)
      /\ \A j, k \in Slots : alone' /\ j # k => request'[j] = NoRequest \/ request'[k] = NoRequest
    BY DEF Histories, SpentInv
<1>3. accepted \in Nat /\ (alone => accepted <= Cardinality(Spent))
    BY DEF SpentInv
<1>4. Spent' = {c \in DOMAIN otp : ~otp[c].unused \/ \E k \in Slots : Spends(request'[k].todo, c)}
    BY <1>1 DEF Spent, Spends
<1>5. \A c : ~ Spends(request[h].todo, c)
    BY NoRequestIs, NothingToDo DEF Opens
<1>6. Spent \subseteq Spent'
    BY <1>4, <1>5 DEF Spent, Opens, OthersStay
<1>7. PICK S, T : S = Spent /\ T = Spent'
    OBVIOUS
<1>8. S \subseteq T /\ T \subseteq 1 .. lastKey
    BY <1>1, <1>4, <1>6, <1>7
<1>9. IsFiniteSet(S) /\ Cardinality(S) <= Cardinality(T) /\ Cardinality(S) \in Nat /\ Cardinality(T) \in Nat
    BY <1>1, <1>8, MoreMembers
<1>10. CASE LetIn = {}
  <2>1. accepted' = accepted
      BY <1>3, <1>10 DEF Histories
  <2>2. alone' => accepted' <= Cardinality(T)
      BY <1>2, <1>3, <1>7, <1>9, <2>1
  <2>3. alone' => accepted' <= Cardinality(Spent)'
      BY <1>7, <2>2
  <2>. QED
      BY <1>1, <1>2, <1>3, <2>1, <2>3 DEF SpentInv
<1>11. CASE LetIn # {}
  <2>1. accepted' = accepted + 1 /\ request'[h].what \in LetsIn
      BY <1>11, OpenHistory DEF Histories
  <2>2. PICK c \in DOMAIN otp : otp[c].unused /\ Spends(request'[h].todo, c)
      BY <2>1 DEF Opens
  <2>3. ASSUME alone' PROVE accepted' <= Cardinality(T)
    <3>1. request'[h] # NoRequest
        BY <2>1, NoRequestIs DEF LetsIn
    <3>2. \A k \in Slots : k # h => request'[k] = NoRequest
        BY <1>2, <2>3, <3>1
    <3>3. \A k \in Slots : k # h => request[k] = NoRequest
        BY <3>2 DEF Opens, OthersStay
    <3>4. \A k \in Slots : request[k].todo = NoRequest.todo
        BY <3>3 DEF Opens
    <3>5. \A k \in Slots : ~ Spends(request[k].todo, c)
        BY <3>4, NoRequestIs, NothingToDo
    <3>6. c \notin S /\ c \in T
        BY <1>4, <1>7, <2>2, <3>5 DEF Spent
    <3>7. S \cup {c} \subseteq T
        BY <1>8, <3>6
    <3>8. Cardinality(S \cup {c}) = Cardinality(S) + 1
        BY <1>9, <3>6, FS_AddElement
    <3>9. Cardinality(S \cup {c}) <= Cardinality(T)
        BY <1>1, <1>8, <3>7, MoreMembers
    <3>10. accepted <= Cardinality(S)
        BY <1>2, <1>3, <1>7, <2>3
    <3>. QED
        BY <1>3, <1>9, <2>1, <3>8, <3>9, <3>10
  <2>4. alone' => accepted' <= Cardinality(Spent)'
      BY <1>7, <2>3
  <2>5. accepted' \in Nat
      BY <1>3, <2>1
  <2>. QED
      BY <1>1, <1>2, <2>4, <2>5 DEF SpentInv
<1>. QED
    BY <1>10, <1>11

(* A call that begins revokes only the token of its own app, now tried.    *)
LEMMA OpenSession ==
    ASSUME Shapes, SessionInv, Valid(db), NEW h \in Slots, Opens(h), Histories
    PROVE  SessionInv'
<1>1. /\ lastKey' = lastKey /\ now' = now /\ token' = token /\ ended \subseteq ended' /\ OthersStay(h)
      /\ lastKey \in Nat /\ now \in Nat /\ request[h] = NoRequest
      /\ request'[h].token = None
      /\ device \in [Apps -> [token : Nat, user : Nat, since : Nat \cup {Never}]]
    BY OpenRows, EndedGrows DEF Opens, Shapes, Tables
<1>2. /\ \A e \in Apps :
           /\ device'[e].token = device[e].token /\ device'[e].user = device[e].user
           /\ device'[e].since = device[e].since \/ (device[e].since = Never /\ device'[e].since = now)
           /\ \A t : device[e].token # None /\ Revokes(request'[h].todo, t) /\ t = device[e].token => device'[e].since # Never
      /\ \A t : Revokes(request'[h].todo, t) => \E d \in Apps : device[d].token = t /\ t # None
    BY OpenApps
<1>3. \A k \in Slots : k # h => request'[k] = request[k]
    BY <1>1 DEF OthersStay
<1>4. \A e \in Apps : device'[e].since <= now'
    BY <1>1, <1>2 DEF SessionInv, AppInv
<1>5. ASSUME NEW d \in Apps, device'[d].token # None
      PROVE  /\ device'[d].token <= lastKey'
             /\ KnownToken(device[d].token, device[d].user, device[d].since)'
             /\ \A e \in Apps : e # d => device'[e].token # device'[d].token
             /\ \A k \in Slots : request'[k].token # device'[d].token
             /\ \A k \in Slots : Revokes(request'[k].todo, device'[d].token) => device'[d].since # Never
  <2>1. PICK t, u, s, z : t = device[d].token /\ u = device[d].user /\ s = device[d].since /\ z = device'[d].since
      OBVIOUS
  <2>2. /\ t <= lastKey /\ KnownToken(t, u, s) /\ t # None
        /\ \A e \in Apps : e # d => device[e].token # t
        /\ \A k \in Slots : request[k].token # t
        /\ \A k \in Slots : Revokes(request[k].todo, t) => s # Never
      BY <1>2, <1>5, <2>1 DEF SessionInv, AppInv
  <2>3. device'[d].token = t /\ device'[d].user = u /\ (z = s \/ (s = Never /\ z = now))
      BY <1>2, <2>1
  <2>4. KnownToken(t, u, z)
      BY <2>2, <2>3 DEF KnownToken
  <2>5. KnownToken(t, u, z)'
      BY <1>1, <2>4, SameKnown
  <2>6. KnownToken(device[d].token, device[d].user, device[d].since)'
      BY <2>1, <2>3, <2>5 DEF KnownToken
  <2>7. ASSUME NEW k \in Slots, Revokes(request'[k].todo, t)
        PROVE  z # Never
    <3>1. CASE k = h
        BY <1>2, <2>1, <2>2, <2>7, <3>1
    <3>2. CASE k # h
      <4>1. s # Never
          BY <1>3, <2>2, <2>7, <3>2
      <4>. QED
          BY <2>3, <4>1
    <3>. QED
        BY <3>1, <3>2
  <2>8. \A k \in Slots : request'[k].token # t
      BY <1>1, <1>3, <2>2
  <2>. QED
      BY <1>1, <1>2, <2>1, <2>2, <2>3, <2>6, <2>7, <2>8
<1>6. AppInv'
    BY <1>4, <1>5 DEF AppInv, KnownToken, Revokes
<1>7. ASSUME NEW k \in Slots, NEW t \in Nat, Revokes(request'[k].todo, t)
      PROVE  t <= lastKey'
  <2>1. CASE k = h
      BY <1>1, <1>2, <1>7, <2>1 DEF SessionInv, AppInv
  <2>2. CASE k # h
      BY <1>1, <1>3, <1>7, <2>2 DEF SessionInv
  <2>. QED
      BY <2>1, <2>2
<1>8. ASSUME NEW k \in Slots, request'[k].token # None
      PROVE  /\ AllLate(request'[k].todo)
             /\ KnownToken(request[k].token, request[k].user, Never)'
             /\ \A j \in Slots : j # k => request'[j].token # request'[k].token
             /\ \A j \in Slots : ~ Revokes(request'[j].todo, request'[k].token)
  <2>1. k # h /\ request'[k] = request[k]
      BY <1>1, <1>3, <1>8
  <2>2. PICK t, u : t = request[k].token /\ u = request[k].user
      OBVIOUS
  <2>3. /\ AllLate(request[k].todo) /\ KnownToken(t, u, Never) /\ t # None
        /\ \A j \in Slots : j # k => request[j].token # t
        /\ \A j \in Slots : ~ Revokes(request[j].todo, t)
      BY <1>8, <2>1, <2>2 DEF SessionInv
  <2>4. KnownToken(t, u, Never)'
      BY <1>1, <2>3, SameKnown
  <2>5. KnownToken(request[k].token, request[k].user, Never)'
      BY <2>1, <2>2, <2>4 DEF KnownToken
  <2>6. \A d \in Apps : device[d].token # None => device[d].token # t
      BY <2>2 DEF SessionInv, AppInv
  <2>7. ASSUME NEW j \in Slots PROVE ~ Revokes(request'[j].todo, t)
    <3>1. CASE j = h
        BY <1>2, <2>6, <3>1
    <3>2. CASE j # h
        BY <1>3, <2>3, <3>2
    <3>. QED
        BY <3>1, <3>2
  <2>8. \A j \in Slots : j # k => request'[j].token # t
      BY <1>1, <1>3, <2>3
  <2>. QED
      BY <2>1, <2>2, <2>3, <2>5, <2>7, <2>8
<1>9. \A t \in DOMAIN token' : token'[t].revoked <= now'
    BY <1>1 DEF SessionInv
<1>10. \A k \in Slots : request'[k].what \in Deletions => request'[k].user \in ended'
    BY EndedGrows
<1>. QED
    BY <1>6, <1>7, <1>8, <1>9, <1>10 DEF SessionInv, KnownToken, Revokes, AllLate

(* A call that begins keeps the invariant.                                 *)
LEMMA OpenKeeps ==
    ASSUME AccountInv, NEW h \in Slots, Opens(h), Histories
    PROVE  AccountInv'
<1>1. Shapes /\ Valid(db) /\ CodeInv /\ EnrolInv /\ SpentInv /\ SessionInv
    BY DEF AccountInv, SpentInv
<1>2. Shapes' /\ SpentInv' /\ SessionInv'
    BY <1>1, OpenRows, OpenSpent, OpenSession
<1>3. /\ user' = user /\ profile' = profile /\ lastKey' = lastKey /\ told' = told /\ enrolled' = enrolled
      /\ request'[h].code = None /\ \A k \in Slots : k # h => request'[k] = request[k]
    BY <1>1, OpenRows, OpenHistory DEF Opens, OthersStay
<1>4. CodeInv'
  <2>1. \A t \in told' : t[1] \in 0 .. lastKey' /\ t[2] # None /\ (t[1] \in DOMAIN user' => user'[t[1]].code = t[2])
      BY <1>1, <1>3 DEF CodeInv
  <2>2. ASSUME NEW k \in Slots, request'[k].code # None
        PROVE  /\ AllLate(request'[k].todo)
               /\ request'[k].user \in DOMAIN user' => user'[request'[k].user].code = request'[k].code
    <3>1. request'[k] = request[k]
        BY <1>3, <2>2
    <3>. QED
        BY <1>1, <1>3, <2>2, <3>1 DEF CodeInv
  <2>. QED
      BY <2>1, <2>2 DEF CodeInv, AllLate
<1>5. EnrolInv'
  <2>1. enrolled' \subseteq 0 .. lastKey' /\ EnrolledHasProfile'
      BY <1>1, <1>3 DEF EnrolInv, EnrolledHasProfile
  <2>2. ASSUME NEW k \in Slots, request'[k].what \in Enrols
        PROVE  \/ WillEnrol(request'[k].todo)
               \/ /\ AllLate(request'[k].todo)
                  /\ request'[k].user \in DOMAIN user' => request'[k].user \in DOMAIN profile'
    <3>1. CASE k = h
        BY <2>2, <3>1 DEF Opens
    <3>2. CASE k # h
        BY <1>1, <1>3, <2>2, <3>2 DEF EnrolInv
    <3>. QED
        BY <3>1, <3>2
  <2>. QED
      BY <2>1, <2>2 DEF EnrolInv, AllLate, WillEnrol
<1>. QED
    BY <1>2, <1>4, <1>5 DEF AccountInv

(* A call that begins with a list.                                         *)
LEMMA BeginOpens ==
    ASSUME Shapes, NEW h \in Slots, request[h] = NoRequest, NEW d, NEW what, NEW u \in 0 .. lastKey, NEW todo,
           Begin(h, d, what, u, todo), IsList(what, todo), \A t : ~ Revokes(todo, t),
           what \in Enrols => WillEnrol(todo),
           what \in LetsIn => \E c \in DOMAIN otp : otp[c].unused /\ Spends(todo, c)
    PROVE  Opens(h)
<1>1. PICK n : n = [NoRequest EXCEPT !.what = what, !.at = d, !.user = u, !.todo = todo]
    OBVIOUS
<1>2. n = [what |-> what, at |-> d, user |-> u, token |-> None, code |-> None, todo |-> todo]
    BY <1>1 DEF NoRequest
<1>3. /\ n = [what |-> n.what, at |-> n.at, user |-> n.user, token |-> n.token, code |-> n.code, todo |-> n.todo]
      /\ n.what = what /\ n.user = u /\ n.token = None /\ n.code = None /\ n.todo = todo
    BY <1>2
<1>4. request' = [request EXCEPT ![h] = n] /\ UNCHANGED <<db, device, now, lastKey, cuts>>
    BY <1>1 DEF Begin
<1>5. OthersStay(h) /\ request'[h] = n
    BY <1>4 DEF Shapes, OthersStay
<1>6. None \in 0 .. lastKey
    BY DEF Shapes, Tables, None
<1>7. IsRequest(request[h])'
    BY <1>3, <1>4, <1>5, <1>6 DEF IsRequest, IsList
<1>. QED
    BY <1>3, <1>4, <1>5, <1>7 DEF Opens

(* A call that begins with a plan.                                         *)
LEMMA PlannedOpens ==
    ASSUME Shapes, NEW h \in Slots, request[h] = NoRequest, NEW d, NEW what, NEW u \in 0 .. lastKey, NEW todo,
           Begin(h, d, what, u, todo), Plan(what, todo), what \notin LetsIn,
           what \in Enrols => WillEnrol(todo)
    PROVE  Opens(h)
BY PlanIs, BeginOpens

(* The queries that calls begin with are queries.                          *)
LEMMA TheQueries ==
    /\ \A name \in Simple : [do |-> name] \in Queries
    /\ [do |-> "setUser", fields |-> [password |-> TRUE]] \in Queries
    /\ \A line \in UserRows : [do |-> "newUser", row |-> line] \in Queries
    /\ \A c \in Nat : [do |-> "spend", id |-> c, value |-> TRUE] \in Queries
    /\ \A c \in Nat : [do |-> "revoke", id |-> c, value |-> TRUE] \in Queries
    /\ \A c, n \in Nat : [do |-> "miss", id |-> c, value |-> n] \in Queries
    /\ \A a \in Nat, b \in BOOLEAN : [do |-> "addAddress", id |-> a, value |-> b] \in Queries
    /\ \A a \in Nat, b \in BOOLEAN : [do |-> "setAddress", id |-> a, value |-> b] \in Queries
    /\ \A a \in Nat, b \in BOOLEAN : [do |-> "dropAddress", id |-> a, value |-> b] \in Queries
    /\ \A p \in Phones, r \in RoleNames : [do |-> "findOrCreate", id |-> p, value |-> r] \in Queries
    /\ \A p \in Phones, r \in RoleNames : [do |-> "findUser", id |-> p, value |-> r] \in Queries
<1>1. [password |-> TRUE] \in Fields
    BY DEF Fields
<1>. QED
    BY <1>1 DEF Queries

(* Asking for a code.                                                      *)
LEMMA SendOtpOpens ==
    ASSUME Shapes, NEW h \in Slots, request[h] = NoRequest, NEW d, NEW p \in Phones, NEW r \in Roles,
           NEW purpose \in {"login", "reset"}, SendOtp(h, d, p, r, purpose)
    PROVE  Opens(h)
<1>1. PICK line : line = [phone |-> p, role |-> r, purpose |-> purpose, tries |-> 0, unused |-> TRUE]
    OBVIOUS
<1>2. line \in OtpRows
    BY <1>1 DEF OtpRows, RoleNames
<1>3. PICK q : q = [do |-> "send", id |-> None, value |-> line]
    OBVIOUS
<1>4. q \in Queries /\ q.do = "send"
    BY <1>2, <1>3 DEF Queries
<1>5. Begin(h, d, "otp", None, <<q>>)
    BY <1>1, <1>3 DEF SendOtp, OnRow
<1>6. Plan("otp", <<q>>)
    BY <1>4, OnePlan DEF Deletions
<1>7. None \in 0 .. lastKey
    BY DEF Shapes, Tables, None
<1>. QED
    BY <1>5, <1>6, <1>7, PlannedOpens DEF LetsIn, Enrols

(* A call with a code from a phone, right or wrong.                        *)
LEMMA WithOtpOpens ==
    ASSUME Shapes, NEW h \in Slots, request[h] = NoRequest, NEW d, NEW p, NEW r, NEW purpose, NEW right \in BOOLEAN,
           NEW what \in LetsIn, NEW todo, Plan(what, todo),
           WithOtp(h, d, Otp(p, r, purpose), right, what, todo)
    PROVE  Opens(h)
<1>1. PICK c : c = Otp(p, r, purpose)
    OBVIOUS
<1>2. c \in DOMAIN otp /\ otp[c].unused /\ WithOtp(h, d, c, right, what, todo)
    BY <1>1, OtpIs DEF WithOtp, Shapes
<1>3. c \in Nat /\ otp[c].tries + 1 \in Nat
    BY <1>2 DEF Shapes, Tables, OtpRows
<1>4. None \in 0 .. lastKey
    BY DEF Shapes, Tables, None
<1>5. CASE right
  <2>1. PICK q : q = [do |-> "spend", id |-> c, value |-> TRUE]
      OBVIOUS
  <2>2. q \in Queries /\ q.do = "spend" /\ q.id = c
      BY <1>3, <2>1, TheQueries
  <2>3. Begin(h, d, what, None, <<q>> \o todo)
      BY <1>2, <1>5, <2>1 DEF WithOtp, Spend, OnRow
  <2>4. PICK s : s = <<q>> \o todo
      OBVIOUS
  <2>5. what \notin Deletions /\ what \notin Enrols
      BY DEF LetsIn, Deletions, Enrols
  <2>6. q.do \notin Late /\ q.do \notin {"revokeAll", "deleteUser"}
      BY <2>2 DEF Late
  <2>7. IsList(what, s) /\ (\A t : ~ Revokes(s, t)) /\ Spends(s, c)
      BY <2>2, <2>4, <2>5, <2>6, ConsIsList
  <2>. QED
      BY <1>2, <1>4, <2>3, <2>4, <2>5, <2>7, BeginOpens
<1>6. CASE ~ right
  <2>1. PICK n : n = otp[c].tries + 1
      OBVIOUS
  <2>2. PICK q : q = [do |-> "miss", id |-> c, value |-> n]
      OBVIOUS
  <2>3. q \in Queries /\ q.do = "miss"
      BY <1>3, <2>1, <2>2, TheQueries
  <2>4. Begin(h, d, "wrongOtp", None, <<q>>)
      BY <1>2, <1>6, <2>1, <2>2 DEF WithOtp, OnRow
  <2>5. Plan("wrongOtp", <<q>>)
      BY <2>3, OnePlan DEF Deletions
  <2>. QED
      BY <1>4, <2>4, <2>5, PlannedOpens DEF LetsIn, Enrols
<1>. QED
    BY <1>5, <1>6

(* Handing out a token, with a query before it.                            *)
LEMMA IssuePlan ==
    ASSUME NEW what, what \notin Deletions
    PROVE  /\ Plan(what, Todo("issue")) /\ AllLate(Todo("issue"))
           /\ \A q \in Queries : q.do \notin {"spend", "revoke", "revokeAll", "deleteUser"} =>
                /\ Plan(what, <<q>> \o Todo("issue"))
                /\ WillEnrol(<<q>> \o Todo("issue")) <=> q.do \in {"findProfile", "addProfile"}
                /\ AllLate(<<q>> \o Todo("issue")) <=> q.do \in Late
<1>1. PICK i : i = [do |-> "issue"]
    OBVIOUS
<1>2. i \in Queries /\ i.do = "issue" /\ Todo("issue") = <<i>>
    BY <1>1, TheQueries DEF Simple, Todo
<1>3. Plan(what, <<i>>) /\ AllLate(<<i>>) /\ ~ WillEnrol(<<i>>)
    BY <1>2, OnePlan DEF Late
<1>4. PICK s : s = Todo("issue")
    OBVIOUS
<1>5. Plan(what, s) /\ AllLate(s) /\ ~ WillEnrol(s)
    BY <1>2, <1>3, <1>4
<1>6. \A q \in Queries : q.do \notin {"spend", "revoke", "revokeAll", "deleteUser"} =>
        /\ Plan(what, <<q>> \o s)
        /\ WillEnrol(<<q>> \o s) <=> q.do \in {"findProfile", "addProfile"}
        /\ AllLate(<<q>> \o s) <=> q.do \in Late
    BY <1>5, ConsIsList
<1>. QED
    BY <1>4, <1>5, <1>6

(* Signing in with a code.                                                 *)
LEMMA VerifyOtpOpens ==
    ASSUME Shapes, NEW h \in Slots, request[h] = NoRequest, NEW d, NEW p \in Phones, NEW r \in Roles,
           NEW right \in BOOLEAN, VerifyOtp(h, d, p, r, right)
    PROVE  Opens(h)
<1>1. PICK q : q = [do |-> "findOrCreate", id |-> p, value |-> r]
    OBVIOUS
<1>2. q \in Queries /\ q.do = "findOrCreate"
    BY <1>1, TheQueries DEF RoleNames
<1>3. Plan("verifyOtp", <<q>> \o Todo("issue"))
    BY <1>2, IssuePlan DEF Deletions
<1>4. WithOtp(h, d, Otp(p, r, "login"), right, "verifyOtp", <<q>> \o Todo("issue"))
    BY <1>1 DEF VerifyOtp, OnRow
<1>5. "verifyOtp" \in LetsIn
    BY DEF LetsIn
<1>. QED
    BY <1>3, <1>4, <1>5, WithOtpOpens

(* Joining two queries and a list.                                         *)
LEMMA Reassoc ==
    ASSUME NEW S, NEW a \in S, NEW b \in S, NEW s \in Seq(S)
    PROVE  (<<a>> \o <<b>>) \o s = <<a>> \o (<<b>> \o s)
OBVIOUS

(* Setting a password with a code.                                         *)
LEMMA ResetPasswordOpens ==
    ASSUME Shapes, NEW h \in Slots, request[h] = NoRequest, NEW d, NEW p \in Phones, NEW r \in Roles,
           NEW right \in BOOLEAN, ResetPasswordWithOtp(h, d, p, r, right)
    PROVE  Opens(h)
<1>1. PICK a, b : a = [do |-> "findUser", id |-> p, value |-> r] /\ b = [do |-> "setUser", fields |-> [password |-> TRUE]]
    OBVIOUS
<1>2. a \in Queries /\ a.do = "findUser" /\ b \in Queries /\ b.do = "setUser"
    BY <1>1, TheQueries DEF RoleNames
<1>3. PICK i, s : i = Todo("issue") /\ s = <<b>> \o i
    OBVIOUS
<1>4. Plan("resetPassword", s) /\ Plan("resetPassword", i)
    BY <1>2, <1>3, IssuePlan DEF Deletions
<1>5. Plan("resetPassword", <<a>> \o s)
    BY <1>2, <1>4, ConsIsList DEF Deletions, Late
<1>6. i \in Seq(Queries)
    BY <1>4 DEF Plan, IsList
<1>7. (<<a>> \o <<b>>) \o i = <<a>> \o s
    BY <1>2, <1>3, <1>6, Reassoc
<1>8. WithOtp(h, d, Otp(p, r, "reset"), right, "resetPassword", (<<a>> \o <<b>>) \o i)
    BY <1>1, <1>3 DEF ResetPasswordWithOtp, OnRow, SetUser
<1>9. "resetPassword" \in LetsIn
    BY DEF LetsIn
<1>10. WithOtp(h, d, Otp(p, r, "reset"), right, "resetPassword", <<a>> \o s)
    BY <1>7, <1>8
<1>. QED
    BY <1>5, <1>9, <1>10, WithOtpOpens

(* A user is known by an id.                                               *)
LEMMA AUser ==
    ASSUME Shapes, NEW u \in DOMAIN user
    PROVE  u \in 0 .. lastKey /\ user[u] \in UserRows
BY DEF Shapes, Tables

(* No user yet.                                                            *)
LEMMA NoneIsUser ==
    ASSUME Shapes
    PROVE  None \in 0 .. lastKey
BY DEF Shapes, Tables, None

(* Signing in with a password.                                             *)
LEMMA LoginOpens ==
    ASSUME Shapes, NEW h \in Slots, request[h] = NoRequest, NEW d, NEW p, NEW r,
           Login(h, d, p, r, "login", <<>>)
    PROVE  Opens(h)
<1>1. PICK u : u = AccountOf(p, r)
    OBVIOUS
<1>2. u \in 0 .. lastKey /\ Begin(h, d, "login", u, Todo("issue") \o <<>>)
    BY <1>1, AccountsAre DEF Login, Shapes
<1>3. Todo("issue") \o <<>> = Todo("issue")
    BY DEF Todo
<1>4. Plan("login", Todo("issue"))
    BY IssuePlan DEF Deletions
<1>. QED
    BY <1>2, <1>3, <1>4, PlannedOpens DEF LetsIn, Enrols

(* Signing in as a rider.                                                  *)
LEMMA PartnerLoginOpens ==
    ASSUME Shapes, NEW h \in Slots, request[h] = NoRequest, NEW d, NEW p, PartnerLogin(h, d, p)
    PROVE  Opens(h)
<1>1. PICK u : u = AccountOf(p, "delivery_partner")
    OBVIOUS
<1>2. PICK a, b : a = [do |-> "issue"] /\ b = [do |-> "findProfile"]
    OBVIOUS
<1>3. a \in Queries /\ a.do = "issue" /\ b \in Queries /\ b.do = "findProfile"
    BY <1>2, TheQueries DEF Simple
<1>4. u \in 0 .. lastKey /\ Begin(h, d, "partnerLogin", u, <<a>> \o <<b>>)
    BY <1>1, <1>2, AccountsAre DEF PartnerLogin, Login, Shapes, Todo
<1>5. PICK s : s = <<b>>
    OBVIOUS
<1>6. Plan("partnerLogin", s) /\ AllLate(s) /\ WillEnrol(s)
    BY <1>3, <1>5, OnePlan DEF Deletions, Late
<1>7. Plan("partnerLogin", <<a>> \o s) /\ WillEnrol(<<a>> \o s)
    BY <1>3, <1>6, ConsIsList DEF Deletions, Late
<1>. QED
    BY <1>4, <1>5, <1>7, PlannedOpens DEF LetsIn, Enrols

(* Inserting a user is a query.                                            *)
LEMMA NewUserIs ==
    ASSUME NEW p \in Phones \cup {None}, NEW r \in RoleNames, NEW on \in BOOLEAN, NEW pw \in BOOLEAN, NEW from \in Nat
    PROVE  [do |-> "newUser", row |-> UserRow(p, r, on, pw, from)] \in Queries
<1>1. UserRow(p, r, on, pw, from) \in UserRows
    BY DEF UserRow, UserRows, None
<1>. QED
    BY <1>1, TheQueries

(* Registering as a customer.                                              *)
LEMMA CustomerRegisterOpens ==
    ASSUME Shapes, NEW h \in Slots, request[h] = NoRequest, NEW d, NEW p \in Phones, NEW c,
           CustomerRegister(h, d, p, c)
    PROVE  Opens(h)
<1>1. PICK u : u = ActiveAccount(p, "customer")
    OBVIOUS
<1>2. u \in 0 .. lastKey
    BY <1>1, AccountsAre DEF Shapes
<1>3. PICK i : i = Todo("issue")
    OBVIOUS
<1>4. Plan("customerRegister", i) /\ AllLate(i) /\ i \in Seq(Queries)
  <2>1. Plan("customerRegister", i) /\ AllLate(i)
      BY <1>3, IssuePlan DEF Deletions
  <2>. QED
      BY <2>1 DEF Plan, IsList
<1>5. CASE u # None /\ Begin(h, d, "customerRegister", u, SetUser([password |-> TRUE]) \o i)
  <2>1. PICK q : q = [do |-> "setUser", fields |-> [password |-> TRUE]]
      OBVIOUS
  <2>2. q \in Queries /\ q.do = "setUser"
      BY <2>1, TheQueries
  <2>3. Begin(h, d, "customerRegister", u, <<q>> \o i)
      BY <1>5, <2>1 DEF SetUser
  <2>4. Plan("customerRegister", <<q>> \o i)
      BY <1>4, <2>2, ConsIsList DEF Deletions, Late
  <2>. QED
      BY <1>2, <2>3, <2>4, PlannedOpens DEF LetsIn, Enrols
<1>6. ASSUME u = None, c # None => Referrers(c) # {},
             NEW from, from = IF c = None THEN None ELSE Max(Referrers(c)),
             Begin(h, d, "customerRegister", None,
                   NewUser(UserRow(p, "customer", TRUE, TRUE, from)) \o OnRow("readCode", None, Draws) \o i)
      PROVE  Opens(h)
  <2>1. from \in Nat
    <3>1. CASE c = None
        BY <1>6, <3>1 DEF None
    <3>2. CASE c # None
      <4>1. Referrers(c) \in SUBSET (1 .. lastKey) /\ Tables
          BY DEF Referrers, Shapes, Tables
      <4>2. Max(Referrers(c)) \in Referrers(c)
          BY <1>6, <3>2, <4>1, NewestIs
      <4>. QED
          BY <1>6, <3>2, <4>1, <4>2
    <3>. QED
        BY <3>1, <3>2
  <2>2. PICK a, b : a = [do |-> "newUser", row |-> UserRow(p, "customer", TRUE, TRUE, from)]
                    /\ b = [do |-> "readCode", id |-> None, value |-> Draws]
      OBVIOUS
  <2>3. Draws \in Nat
      BY AccountAssumption
  <2>4. a \in Queries /\ a.do = "newUser" /\ b \in Queries /\ b.do = "readCode"
      BY <2>1, <2>2, <2>3, NewUserIs, DrawIsQuery DEF RoleNames
  <2>5. PICK s : s = <<b>> \o i
      OBVIOUS
  <2>6. Plan("customerRegister", s)
      BY <1>4, <2>4, <2>5, ConsIsList DEF Deletions, Late
  <2>7. Plan("customerRegister", <<a>> \o s)
      BY <2>4, <2>6, ConsIsList DEF Deletions, Late
  <2>8. (<<a>> \o <<b>>) \o i = <<a>> \o s
      BY <1>4, <2>4, <2>5, Reassoc
  <2>9. Begin(h, d, "customerRegister", None, (<<a>> \o <<b>>) \o i)
      BY <1>6, <2>2 DEF NewUser, OnRow
  <2>10. Begin(h, d, "customerRegister", None, <<a>> \o s)
      BY <2>8, <2>9
  <2>. QED
      BY <2>7, <2>10, NoneIsUser, PlannedOpens DEF LetsIn, Enrols
<1>. QED
    BY <1>1, <1>3, <1>5, <1>6 DEF CustomerRegister

(* Registering as a rider or a vendor.                                     *)
LEMMA RegisterOpens ==
    ASSUME Shapes, NEW h \in Slots, request[h] = NoRequest, NEW d, NEW p \in Phones, NEW r \in RoleNames, NEW taken,
           Register(h, d, p, r, taken)
    PROVE  Opens(h)
<1>1. PICK u : u = ActiveAccount(p, r)
    OBVIOUS
<1>2. u \in 0 .. lastKey
    BY <1>1, AccountsAre DEF Shapes
<1>3. PICK b : b = [do |-> "findProfile"]
    OBVIOUS
<1>4. b \in Queries /\ b.do = "findProfile"
    BY <1>3, TheQueries DEF Simple
<1>5. PICK s : s = Todo("findProfile") \o Todo("issue")
    OBVIOUS
<1>6. s = <<b>> \o Todo("issue")
    BY <1>3, <1>5 DEF Todo
<1>7. Plan("register", s) /\ WillEnrol(s)
    BY <1>4, <1>6, IssuePlan DEF Deletions
<1>8. ASSUME NEW q \in Queries, q.do \in {"setUser", "newUser"}, NEW w \in 0 .. lastKey,
             Begin(h, d, "register", w, <<q>> \o s)
      PROVE  Opens(h)
  <2>1. Plan("register", <<q>> \o s) /\ WillEnrol(<<q>> \o s)
      BY <1>7, <1>8, ConsIsList DEF Deletions, Late
  <2>. QED
      BY <1>8, <2>1, PlannedOpens DEF LetsIn, Enrols
<1>9. CASE u # None /\ Begin(h, d, "register", u, SetUser([password |-> TRUE]) \o s)
  <2>1. PICK q : q = [do |-> "setUser", fields |-> [password |-> TRUE]]
      OBVIOUS
  <2>2. q \in Queries /\ q.do = "setUser"
      BY <2>1, TheQueries
  <2>3. Begin(h, d, "register", u, <<q>> \o s)
      BY <1>9, <2>1 DEF SetUser
  <2>. QED
      BY <1>2, <1>8, <2>2, <2>3
<1>10. CASE u = None /\ Begin(h, d, "register", None, NewUser(UserRow(p, r, TRUE, TRUE, None)) \o s)
  <2>1. PICK q : q = [do |-> "newUser", row |-> UserRow(p, r, TRUE, TRUE, None)]
      OBVIOUS
  <2>2. q \in Queries /\ q.do = "newUser"
      BY <2>1, NewUserIs DEF None
  <2>3. Begin(h, d, "register", None, <<q>> \o s)
      BY <1>10, <2>1 DEF NewUser
  <2>. QED
      BY <1>8, <2>2, <2>3, NoneIsUser
<1>. QED
    BY <1>1, <1>5, <1>9, <1>10 DEF Register

(* Asking for a new token with the one an app holds.                       *)
LEMMA RefreshOpens ==
    ASSUME Shapes, Valid(db), NEW h \in Slots, request[h] = NoRequest, NEW d \in Apps, Refresh(h, d)
    PROVE  Opens(h)
<1>1. PICK t : t = device[d].token
    OBVIOUS
<1>2. t # None /\ t \in DOMAIN token /\ device' = Tried(d) /\ UNCHANGED <<db, now, lastKey, cuts>>
    BY <1>1 DEF Refresh, Accepted
<1>3. t \in Nat
    BY <1>2 DEF Shapes, Tables
<1>4. PICK w : w = token[t].user
    OBVIOUS
<1>5. w \in 0 .. lastKey
    BY <1>2, <1>4 DEF Valid, user, token, Shapes, Tables
<1>6. PICK i, s : i = Todo("issue") /\ s = (IF token[t].revoked = Never THEN OnRow("revoke", t, TRUE) ELSE <<>>) \o i
    OBVIOUS
<1>7. Plan("refresh", i) /\ AllLate(i) /\ i \in Seq(Queries)
  <2>0. "refresh" \notin Deletions
      BY DEF Deletions
  <2>1. Plan("refresh", i) /\ AllLate(i)
      BY <1>6, <2>0, IssuePlan
  <2>. QED
      BY <2>1 DEF Plan, IsList
<1>8. IsList("refresh", s) /\ \A x : Revokes(s, x) => x = t
  <2>1. CASE token[t].revoked = Never
    <3>1. PICK q : q = [do |-> "revoke", id |-> t, value |-> TRUE]
        OBVIOUS
    <3>2. q \in Queries /\ q.do = "revoke" /\ q.id = t
        BY <1>3, <3>1, TheQueries
    <3>3. s = <<q>> \o i
        BY <1>6, <2>1, <3>1 DEF OnRow
    <3>4. IsList("refresh", s) /\ \A x : Revokes(s, x) <=> q.do = "revoke" /\ q.id = x
        BY <1>7, <3>2, <3>3, ConsIsList DEF Deletions, Late
    <3>. QED
        BY <3>2, <3>4
  <2>2. CASE token[t].revoked # Never
    <3>1. s = <<>> \o i
        BY <1>6, <2>2
    <3>2. s = i
        BY <1>7, <3>1
    <3>. QED
        BY <1>7, <3>2, PlanIs
  <2>. QED
      BY <2>1, <2>2
<1>9. PICK n : n = [NoRequest EXCEPT !.what = "refresh", !.at = d, !.user = w, !.todo = s]
    OBVIOUS
<1>10. n = [what |-> "refresh", at |-> d, user |-> w, token |-> None, code |-> None, todo |-> s]
    BY <1>9 DEF NoRequest
<1>11. /\ n = [what |-> n.what, at |-> n.at, user |-> n.user, token |-> n.token, code |-> n.code, todo |-> n.todo]
       /\ n.what = "refresh" /\ n.user = w /\ n.token = None /\ n.code = None /\ n.todo = s
    BY <1>10
<1>12. request' = [request EXCEPT ![h] = n]
    BY <1>1, <1>4, <1>6, <1>9 DEF Refresh
<1>13. OthersStay(h) /\ request'[h] = n
    BY <1>12 DEF Shapes, OthersStay
<1>14. IsRequest(request[h])'
    BY <1>2, <1>5, <1>8, <1>11, <1>13, NoneIsUser DEF IsRequest, IsList
<1>. QED
    BY <1>1, <1>2, <1>8, <1>11, <1>13, <1>14 DEF Opens, Enrols, LetsIn

(* Setting a password.                                                     *)
LEMMA SetPasswordOpens ==
    ASSUME Shapes, NEW h \in Slots, request[h] = NoRequest, NEW d, NEW u \in 0 .. lastKey,
           Begin(h, d, "createPassword", u, SetUser([password |-> TRUE]))
    PROVE  Opens(h)
<1>1. PICK q : q = [do |-> "setUser", fields |-> [password |-> TRUE]]
    OBVIOUS
<1>2. q \in Queries /\ q.do = "setUser"
    BY <1>1, TheQueries
<1>3. Begin(h, d, "createPassword", u, <<q>>)
    BY <1>1 DEF SetUser
<1>4. Plan("createPassword", <<q>>)
    BY <1>2, OnePlan DEF Deletions
<1>. QED
    BY <1>3, <1>4, PlannedOpens DEF LetsIn, Enrols

(* Asking for one's referral code.                                         *)
LEMMA MyCodeOpens ==
    ASSUME Shapes, NEW h \in Slots, request[h] = NoRequest, NEW d, NEW u \in 0 .. lastKey,
           Begin(h, d, "myCode", u, OnRow("readCode", None, Draws))
    PROVE  Opens(h)
<1>1. PICK q : q = [do |-> "readCode", id |-> None, value |-> Draws]
    OBVIOUS
<1>2. q \in Queries /\ q.do = "readCode"
    BY <1>1, DrawIsQuery, AccountAssumption
<1>3. Begin(h, d, "myCode", u, <<q>>)
    BY <1>1 DEF OnRow
<1>4. Plan("myCode", <<q>>)
    BY <1>2, OnePlan DEF Deletions
<1>. QED
    BY <1>3, <1>4, PlannedOpens DEF LetsIn, Enrols

(* Joining three queries.                                                  *)
LEMMA Reassoc3 ==
    ASSUME NEW S, NEW a \in S, NEW b \in S, NEW c \in S
    PROVE  (<<a>> \o <<b>>) \o <<c>> = <<a>> \o (<<b>> \o <<c>>)
OBVIOUS

(* Three queries of a removal.                                             *)
LEMMA RemovalPlan ==
    ASSUME NEW what \in Deletions, NEW a \in Queries, NEW b \in Queries, NEW c \in Queries,
           {a.do, b.do, c.do} \subseteq Removal
    PROVE  Plan(what, (<<a>> \o <<b>>) \o <<c>>)
<1>1. PICK s : s = <<c>>
    OBVIOUS
<1>2. Plan(what, s)
    BY <1>1, OnePlan DEF Removal
<1>3. PICK r : r = <<b>> \o s
    OBVIOUS
<1>4. Plan(what, r)
    BY <1>2, <1>3, ConsIsList DEF Removal, Late
<1>5. Plan(what, <<a>> \o r)
    BY <1>4, ConsIsList DEF Removal, Late
<1>. QED
    BY <1>1, <1>3, <1>5, Reassoc3

(* Deleting one's account.                                                 *)
LEMMA DeleteAccountOpens ==
    ASSUME Shapes, NEW h \in Slots, request[h] = NoRequest, NEW d, NEW u \in 0 .. lastKey, NEW close \in BOOLEAN,
           Begin(h, d, "deleteAccount", u,
                 (IF close THEN Todo("close") ELSE <<>>) \o Todo("dropDocuments") \o Departure)
    PROVE  Opens(h)
<1>1. PICK a, b, c, z : /\ a = [do |-> "dropDocuments"] /\ b = [do |-> "setUser", fields |-> Scrubbed]
                       /\ c = [do |-> "revokeAll"] /\ z = [do |-> "close"]
    OBVIOUS
<1>2. /\ a \in Queries /\ b \in Queries /\ c \in Queries /\ z \in Queries
      /\ a.do = "dropDocuments" /\ b.do = "setUser" /\ c.do = "revokeAll" /\ z.do = "close"
    BY <1>1, TheQueries, ScrubbedIsQuery DEF Simple
<1>3. PICK s : s = (<<a>> \o <<b>>) \o <<c>>
    OBVIOUS
<1>4. "deleteAccount" \in Deletions
    BY DEF Deletions
<1>5. Plan("deleteAccount", s)
    BY <1>2, <1>3, <1>4, RemovalPlan DEF Removal
<1>6. Plan("deleteAccount", <<z>> \o s)
    BY <1>2, <1>4, <1>5, ConsIsList DEF Removal, Late
<1>7. PICK f : f = IF close THEN <<z>> ELSE <<>>
    OBVIOUS
<1>8. Begin(h, d, "deleteAccount", u, (f \o <<a>>) \o (<<b>> \o <<c>>))
    BY <1>1, <1>7 DEF Todo, SetUser, Departure
<1>9. f \in Seq(Queries)
    BY <1>2, <1>7
<1>10. (f \o <<a>>) \o (<<b>> \o <<c>>) = f \o s
    BY <1>2, <1>3, <1>9
<1>11. Plan("deleteAccount", f \o s)
  <2>1. CASE close
      BY <1>6, <1>7, <2>1
  <2>2. CASE ~ close
    <3>1. s \in Seq(Queries)
        BY <1>2, <1>3
    <3>2. f \o s = s
        BY <1>7, <2>2, <3>1
    <3>. QED
        BY <1>5, <3>2
  <2>. QED
      BY <2>1, <2>2
<1>. QED
    BY <1>8, <1>10, <1>11, PlannedOpens DEF LetsIn, Enrols

(* A vendor deletes his account.                                           *)
LEMMA DeleteVendorAccountOpens ==
    ASSUME Shapes, NEW h \in Slots, request[h] = NoRequest, NEW d, NEW u \in 0 .. lastKey,
           Begin(h, d, "deleteAccount", u, Todo("dropDocuments") \o Todo("close") \o Departure)
    PROVE  Opens(h)
<1>1. PICK a, b, c, z : /\ a = [do |-> "dropDocuments"] /\ b = [do |-> "setUser", fields |-> Scrubbed]
                       /\ c = [do |-> "revokeAll"] /\ z = [do |-> "close"]
    OBVIOUS
<1>2. /\ a \in Queries /\ b \in Queries /\ c \in Queries /\ z \in Queries
      /\ a.do = "dropDocuments" /\ b.do = "setUser" /\ c.do = "revokeAll" /\ z.do = "close"
    BY <1>1, TheQueries, ScrubbedIsQuery DEF Simple
<1>3. PICK s : s = (<<z>> \o <<b>>) \o <<c>>
    OBVIOUS
<1>4. "deleteAccount" \in Deletions
    BY DEF Deletions
<1>5. Plan("deleteAccount", s)
    BY <1>2, <1>3, <1>4, RemovalPlan DEF Removal
<1>6. Plan("deleteAccount", <<a>> \o s)
    BY <1>2, <1>4, <1>5, ConsIsList DEF Removal, Late
<1>7. PICK r : r = <<a>> \o s
    OBVIOUS
<1>8. (<<a>> \o <<z>>) \o (<<b>> \o <<c>>) = r
    BY <1>2, <1>3, <1>7
<1>9. Begin(h, d, "deleteAccount", u, r)
    BY <1>1, <1>8 DEF Todo, SetUser, Departure
<1>10. Plan("deleteAccount", r)
    BY <1>6, <1>7
<1>. QED
    BY <1>9, <1>10, PlannedOpens DEF LetsIn, Enrols

(* An admin deletes a user, a rider or a vendor.                           *)
LEMMA DeletionOpens ==
    ASSUME Shapes, NEW h \in Slots, request[h] = NoRequest, NEW u \in 0 .. lastKey,
           NEW what \in {"deleteUser", "deleteMember"}, Begin(h, None, what, u, Deletion)
    PROVE  Opens(h)
<1>1. PICK a, b, c : a = [do |-> "dropDocuments"] /\ b = [do |-> "revokeAll"] /\ c = [do |-> "deleteUser"]
    OBVIOUS
<1>2. /\ a \in Queries /\ b \in Queries /\ c \in Queries
      /\ a.do = "dropDocuments" /\ b.do = "revokeAll" /\ c.do = "deleteUser"
    BY <1>1, TheQueries DEF Simple
<1>3. what \in Deletions /\ what \notin LetsIn /\ what \notin Enrols
    BY DEF Deletions, LetsIn, Enrols
<1>4. Plan(what, (<<a>> \o <<b>>) \o <<c>>)
    BY <1>2, <1>3, RemovalPlan DEF Removal
<1>5. Begin(h, None, what, u, (<<a>> \o <<b>>) \o <<c>>)
    BY <1>1 DEF Deletion, Todo
<1>. QED
    BY <1>3, <1>4, <1>5, PlannedOpens

(* An admin sets a vendor's password.                                      *)
LEMMA ResetVendorOpens ==
    ASSUME Shapes, NEW h \in Slots, request[h] = NoRequest, NEW u \in 0 .. lastKey, ResetAdminVendorPassword(h, u)
    PROVE  Opens(h)
<1>1. PICK b, c : b = [do |-> "setUser", fields |-> [password |-> TRUE]] /\ c = [do |-> "revokeAll"]
    OBVIOUS
<1>2. b \in Queries /\ c \in Queries /\ b.do = "setUser" /\ c.do = "revokeAll"
    BY <1>1, TheQueries DEF Simple
<1>3. "resetVendor" \in Deletions
    BY DEF Deletions
<1>4. PICK s : s = <<c>>
    OBVIOUS
<1>5. Plan("resetVendor", s)
    BY <1>2, <1>3, <1>4, OnePlan DEF Removal
<1>6. Plan("resetVendor", <<b>> \o s)
    BY <1>2, <1>3, <1>5, ConsIsList DEF Removal, Late
<1>7. Begin(h, None, "resetVendor", u, <<b>> \o s)
    BY <1>1, <1>4 DEF ResetAdminVendorPassword, Todo, SetUser
<1>. QED
    BY <1>6, <1>7, PlannedOpens DEF LetsIn, Enrols

(* Writing an address, the default one or not.                             *)
LEMMA AddressOpens ==
    ASSUME Shapes, NEW h \in Slots, request[h] = NoRequest, NEW d, NEW u \in 0 .. lastKey, NEW main \in BOOLEAN,
           NEW q \in Queries, q.do \in {"addAddress", "setAddress"},
           Begin(h, d, "address", u, ClearDefault(main) \o <<q>>)
    PROVE  Opens(h)
<1>1. PICK s : s = <<q>>
    OBVIOUS
<1>2. Plan("address", s)
    BY <1>1, OnePlan DEF Deletions
<1>3. CASE main
  <2>1. PICK a : a = [do |-> "clearDefault"]
      OBVIOUS
  <2>2. a \in Queries /\ a.do = "clearDefault"
      BY <2>1, TheQueries DEF Simple
  <2>3. Begin(h, d, "address", u, <<a>> \o s)
      BY <1>1, <1>3, <2>1 DEF ClearDefault, Todo
  <2>4. Plan("address", <<a>> \o s)
      BY <1>2, <2>2, ConsIsList DEF Deletions, Late
  <2>. QED
      BY <2>3, <2>4, PlannedOpens DEF LetsIn, Enrols
<1>4. CASE ~ main
  <2>1. <<>> \o <<q>> = s
      BY <1>1
  <2>2. Begin(h, d, "address", u, s)
      BY <1>4, <2>1 DEF ClearDefault
  <2>. QED
      BY <1>2, <2>2, PlannedOpens DEF LetsIn, Enrols
<1>. QED
    BY <1>3, <1>4

(* An admin adds a user.                                                   *)
LEMMA CreateUserOpens ==
    ASSUME Shapes, NEW h \in Slots, request[h] = NoRequest, NEW p \in Phones, NEW r \in Roles, NEW on \in BOOLEAN,
           NEW withAddress \in BOOLEAN, CreateUser(h, p, r, on, withAddress)
    PROVE  Opens(h)
<1>1. PICK a, b : a = [do |-> "newUser", row |-> UserRow(p, r, on, FALSE, None)]
                  /\ b = [do |-> "addAddress", id |-> None, value |-> TRUE]
    OBVIOUS
<1>2. a \in Queries /\ a.do = "newUser" /\ b \in Queries /\ b.do = "addAddress"
    BY <1>1, NewUserIs, TheQueries DEF RoleNames, None
<1>3. Plan("createUser", <<a>>)
    BY <1>2, OnePlan DEF Deletions
<1>4. PICK s : s = <<b>>
    OBVIOUS
<1>5. Plan("createUser", s)
    BY <1>2, <1>4, OnePlan DEF Deletions
<1>6. Plan("createUser", <<a>> \o s)
    BY <1>2, <1>5, ConsIsList DEF Deletions, Late
<1>7. CASE withAddress
  <2>1. Begin(h, None, "createUser", None, <<a>> \o s)
      BY <1>1, <1>4, <1>7 DEF CreateUser, NewUser, OnRow
  <2>. QED
      BY <1>6, <2>1, NoneIsUser, PlannedOpens DEF LetsIn, Enrols
<1>8. CASE ~ withAddress
  <2>1. <<a>> \o <<>> = <<a>>
      OBVIOUS
  <2>2. Begin(h, None, "createUser", None, <<a>>)
      BY <1>1, <1>8, <2>1 DEF CreateUser, NewUser
  <2>. QED
      BY <1>3, <2>2, NoneIsUser, PlannedOpens DEF LetsIn, Enrols
<1>. QED
    BY <1>7, <1>8

(* An admin edits a user.                                                  *)
LEMMA UpdateUserOpens ==
    ASSUME Shapes, NEW h \in Slots, request[h] = NoRequest, NEW u \in DOMAIN user, NEW fields \in Changes,
           UpdateUser(h, u, fields)
    PROVE  Opens(h)
<1>1. PICK line : line = Written(user[u], fields)
    OBVIOUS
<1>2. user[u] \in UserRows /\ fields \in Fields /\ u \in 0 .. lastKey
    BY AUser DEF Fields
<1>3. line \in UserRows
    BY <1>1, <1>2, WrittenIs
<1>4. PICK f : f = [phone |-> line.phone, role |-> line.role, active |-> line.active]
    OBVIOUS
<1>5. f \in Fields
  <2>1. f \in [phone : Phones \cup {None}, role : RoleNames, active : BOOLEAN]
      BY <1>3, <1>4 DEF UserRows
  <2>. QED
      BY <2>1 DEF Fields
<1>6. PICK q : q = [do |-> "setUser", fields |-> f]
    OBVIOUS
<1>7. q \in Queries /\ q.do = "setUser"
    BY <1>5, <1>6 DEF Queries
<1>8. Begin(h, None, "updateUser", u, <<q>>)
    BY <1>1, <1>4, <1>6 DEF UpdateUser, SetUser
<1>9. Plan("updateUser", <<q>>)
    BY <1>7, OnePlan DEF Deletions
<1>. QED
    BY <1>2, <1>8, <1>9, PlannedOpens DEF LetsIn, Enrols

-----------------------------------------------------------------------------
(* The steps that are no call's.                                           *)

(* A step that no call takes.                                              *)
Idles ==
    /\ request' = request /\ cuts' = cuts /\ lastKey' = lastKey /\ now' >= now
    /\ user' = user /\ profile' = profile /\ token' = token
    /\ DOMAIN otp' = DOMAIN otp /\ \A c \in DOMAIN otp : ~ otp[c].unused => ~ otp'[c].unused
    /\ Tables' /\ Valid(db)'
    /\ \A d \in Apps : device'[d] = device[d] \/ device'[d] = SignedOut

(* A step that no call takes keeps the invariant.                          *)
LEMMA IdleKeeps ==
    ASSUME AccountInv, Idles, Histories
    PROVE  AccountInv'
<1>1. /\ Shapes /\ Valid(db) /\ CodeInv /\ EnrolInv /\ SpentInv /\ SessionInv
      /\ request' = request /\ cuts' = cuts /\ lastKey' = lastKey /\ now' >= now
      /\ user' = user /\ profile' = profile /\ token' = token /\ Valid(db)'
      /\ now \in Nat /\ now' \in Nat /\ lastKey \in Nat
    BY DEF AccountInv, SpentInv, Idles, Shapes, Tables
<1>2. LetIn = {} /\ Told = {} /\ Enrolling = {}
    BY <1>1, NoRequestIs DEF LetIn, Told, Enrolling, Answered
<1>3. told' = told /\ enrolled' = enrolled /\ accepted' = accepted /\ ended \subseteq ended'
  <2>1. accepted' = accepted + 0
      BY <1>2 DEF Histories
  <2>. QED
      BY <1>1, <1>2, <2>1, EndedGrows DEF Histories, SpentInv
<1>4. Shapes'
  <2>1. ASSUME NEW h \in Slots PROVE IsRequest(request[h])'
    <3>1. Tables' /\ lastKey' >= lastKey /\ request'[h] = request[h]
        BY <1>1 DEF Idles
    <3>. QED
        BY <1>1, <3>1, RequestStays
  <2>2. Tables'
      BY DEF Idles
  <2>. QED
      BY <1>1, <2>1, <2>2 DEF Shapes
<1>5. CodeInv'
    BY <1>1, <1>3 DEF CodeInv, AllLate
<1>6. EnrolInv'
    BY <1>1, <1>3 DEF EnrolInv, EnrolledHasProfile, AllLate, WillEnrol
<1>7. SpentInv'
  <2>1. Spent \subseteq Spent' /\ Spent' \subseteq 1 .. lastKey
      BY <1>1 DEF Idles, Spent, Spends, Shapes, Tables
  <2>2. PICK S, T : S = Spent /\ T = Spent'
      OBVIOUS
  <2>3. Cardinality(S) <= Cardinality(T) /\ Cardinality(S) \in Nat /\ Cardinality(T) \in Nat
      BY <1>1, <2>1, <2>2, MoreMembers
  <2>4. /\ alone' \in BOOLEAN /\ (alone' => alone)
        /\ \A j, k \in Slots : alone' /\ j # k => request'[j] = NoRequest \/ request'[k] = NoRequest
      BY <1>1 DEF Histories, SpentInv
  <2>5. accepted \in Nat /\ (alone => accepted <= Cardinality(S))
      BY <1>1, <2>2 DEF SpentInv
  <2>6. alone' => accepted' <= Cardinality(T)
      BY <1>3, <2>3, <2>4, <2>5
  <2>7. alone' => accepted' <= Cardinality(Spent)'
      BY <2>2, <2>6
  <2>. QED
      BY <1>1, <1>3, <2>4, <2>5, <2>7 DEF SpentInv
<1>8. SignedOut.token = None /\ SignedOut.since = Never
    BY DEF SignedOut
<1>9. \A d \in Apps : device'[d].since <= now'
  <2>1. device \in [Apps -> [token : Nat, user : Nat, since : Nat \cup {Never}]]
      BY <1>1 DEF Shapes, Tables
  <2>2. \A d \in Apps : device[d].since <= now
      BY <1>1 DEF SessionInv, AppInv
  <2>3. \A d \in Apps : device'[d] = device[d] \/ device'[d] = SignedOut
      BY DEF Idles
  <2>. QED
      BY <1>1, <1>8, <2>1, <2>2, <2>3 DEF Never
<1>10. ASSUME NEW d \in Apps, device'[d].token # None
       PROVE  /\ device'[d].token <= lastKey'
              /\ KnownToken(device[d].token, device[d].user, device[d].since)'
              /\ \A e \in Apps : e # d => device'[e].token # device'[d].token
              /\ \A k \in Slots : request'[k].token # device'[d].token
              /\ \A k \in Slots : Revokes(request'[k].todo, device'[d].token) => device'[d].since # Never
  <2>1. device'[d] = device[d]
      BY <1>8, <1>10 DEF Idles
  <2>2. PICK t, u, s : t = device[d].token /\ u = device[d].user /\ s = device[d].since
      OBVIOUS
  <2>3. /\ t <= lastKey /\ KnownToken(t, u, s) /\ t # None
        /\ \A e \in Apps : e # d => device[e].token # t
        /\ \A k \in Slots : request[k].token # t
        /\ \A k \in Slots : Revokes(request[k].todo, t) => s # Never
      BY <1>1, <1>10, <2>1, <2>2 DEF SessionInv, AppInv
  <2>4. KnownToken(t, u, s)'
      BY <1>1, <1>3, <2>3, SameKnown
  <2>5. KnownToken(device[d].token, device[d].user, device[d].since)'
      BY <2>1, <2>2, <2>4 DEF KnownToken
  <2>6. \A e \in Apps : e # d => device'[e].token # t
      BY <1>8, <2>3 DEF Idles
  <2>. QED
      BY <1>1, <2>1, <2>2, <2>3, <2>5, <2>6
<1>11. AppInv'
    BY <1>9, <1>10 DEF AppInv, KnownToken, Revokes
<1>12. \A t \in DOMAIN token' : token'[t].revoked <= now'
  <2>1. \A t \in DOMAIN token : token[t].revoked <= now /\ token[t].revoked \in Nat \cup {Never}
      BY <1>1 DEF SessionInv, Shapes, Tables
  <2>. QED
      BY <1>1, <2>1 DEF Never
<1>13. ASSUME NEW k \in Slots, request'[k].token # None
       PROVE  /\ AllLate(request'[k].todo)
              /\ KnownToken(request[k].token, request[k].user, Never)'
              /\ \A j \in Slots : j # k => request'[j].token # request'[k].token
              /\ \A j \in Slots : ~ Revokes(request'[j].todo, request'[k].token)
  <2>1. PICK t, u : t = request[k].token /\ u = request[k].user
      OBVIOUS
  <2>2. KnownToken(t, u, Never)
      BY <1>1, <1>13, <2>1 DEF SessionInv
  <2>3. KnownToken(t, u, Never)'
      BY <1>1, <1>3, <2>2, SameKnown
  <2>4. KnownToken(request[k].token, request[k].user, Never)'
      BY <1>1, <2>1, <2>3 DEF KnownToken
  <2>. QED
      BY <1>1, <1>13, <2>4 DEF SessionInv
<1>14. ASSUME NEW k \in Slots
       PROVE  /\ request'[k].what \in Deletions => request'[k].user \in ended'
              /\ \A t \in Nat : Revokes(request'[k].todo, t) => t <= lastKey'
    BY <1>1, EndedGrows DEF SessionInv
<1>15. SessionInv'
    BY <1>11, <1>12, <1>13, <1>14 DEF SessionInv, KnownToken, Revokes, AllLate
<1>. QED
    BY <1>4, <1>5, <1>6, <1>7, <1>15 DEF AccountInv

(* A refusal signs out one app.                                            *)
LEMMA RefusedIdles ==
    ASSUME Shapes, Valid(db), NEW d \in Apps, RefreshRefused(d)
    PROVE  Idles
<1>1. device' = [device EXCEPT ![d] = SignedOut] /\ UNCHANGED <<db, request, now, lastKey, cuts>>
    BY DEF RefreshRefused
<1>2. /\ device \in [Apps -> [token : Nat, user : Nat, since : Nat \cup {Never}]]
      /\ now \in Nat /\ cuts' \in Nat
    BY <1>1 DEF Shapes, Tables
<1>3. SignedOut \in [token : Nat, user : Nat, since : Nat \cup {Never}]
    BY DEF SignedOut, None
<1>4. /\ device' \in [Apps -> [token : Nat, user : Nat, since : Nat \cup {Never}]]
      /\ \A e \in Apps : device'[e] = device[e] \/ device'[e] = SignedOut
    BY <1>1, <1>2, <1>3
<1>5. /\ Tables' /\ Valid(db)'
      /\ user' = user /\ profile' = profile /\ token' = token /\ otp' = otp
    BY <1>1, <1>2, <1>4, SameRows
<1>. QED
    BY <1>1, <1>2, <1>4, <1>5 DEF Idles

(* Time goes by.                                                           *)
LEMMA TickIdles ==
    ASSUME Shapes, Valid(db), Tick
    PROVE  Idles
<1>1. UNCHANGED <<db, request, device, lastKey, cuts>> /\ now' = now + 1 /\ now \in Nat
    BY DEF Tick, Shapes, Tables
<1>2. user' = user /\ profile' = profile /\ token' = token /\ otp' = otp /\ documents' = documents /\ address' = address
    BY <1>1 DEF user, profile, token, otp, documents, address
<1>3. Tables'
    BY <1>1, <1>2 DEF Shapes, Tables
<1>4. PICK x : x = db
    OBVIOUS
<1>5. Valid(x) /\ db' = x
    BY <1>1, <1>4
<1>6. Valid(db)'
    BY <1>5 DEF Valid
<1>. QED
    BY <1>1, <1>2, <1>3, <1>6 DEF Idles

(* A code that expires can be used no more.                                *)
LEMMA ExpireIdles ==
    ASSUME Shapes, Valid(db), NEW c \in DOMAIN otp, Expire(c)
    PROVE  Idles
<1>1. db' = [db EXCEPT !.otp[c].unused = FALSE] /\ UNCHANGED <<request, device, now, lastKey, cuts>>
    BY DEF Expire
<1>2. PICK x, y : x = db /\ y = db'
    OBVIOUS
<1>3. /\ x = [user |-> x.user, profile |-> x.profile, documents |-> x.documents, token |-> x.token,
              otp |-> x.otp, address |-> x.address]
      /\ x.user = user /\ x.profile = profile /\ x.token = token /\ x.otp = otp /\ x.address = address
      /\ otp \in [DOMAIN otp -> OtpRows] /\ Tables
    BY <1>2 DEF Shapes, Tables, user, profile, documents, token, otp, address
<1>4. PICK o : o = [otp EXCEPT ![c].unused = FALSE]
    OBVIOUS
<1>5. y = [x EXCEPT !.otp[c].unused = FALSE]
    BY <1>1, <1>2
<1>6. y = [user |-> x.user, profile |-> x.profile, documents |-> x.documents, token |-> x.token,
           otp |-> o, address |-> x.address]
    BY <1>3, <1>4, <1>5
<1>7. /\ y = [user |-> y.user, profile |-> y.profile, documents |-> y.documents, token |-> y.token,
              otp |-> y.otp, address |-> y.address]
      /\ y.user = x.user /\ y.profile = x.profile /\ y.documents = x.documents
      /\ y.token = x.token /\ y.otp = o /\ y.address = x.address
    BY <1>6
<1>8. [otp[c] EXCEPT !.unused = FALSE] \in OtpRows /\ ~ [otp[c] EXCEPT !.unused = FALSE].unused
    BY <1>3 DEF OtpRows
<1>9. /\ o \in [DOMAIN otp -> OtpRows] /\ DOMAIN o = DOMAIN otp
      /\ \A z \in DOMAIN otp : ~ otp[z].unused => ~ o[z].unused
    BY <1>3, <1>4, <1>8
<1>10. user' = user /\ profile' = profile /\ token' = token /\ otp' = o /\ documents' = documents /\ address' = address
    BY <1>2, <1>3, <1>7 DEF user, profile, token, otp, documents, address
<1>11. Tables'
    BY <1>1, <1>2, <1>3, <1>7, <1>9, <1>10 DEF Tables, user, profile, documents, token, otp, address
<1>12. Valid(x)
    BY <1>2
<1>13. Valid(y)
    BY <1>7, <1>12 DEF Valid
<1>14. Valid(db)'
    BY <1>2, <1>13
<1>15. now' >= now
    BY <1>1 DEF Shapes, Tables
<1>. QED
    BY <1>1, <1>9, <1>10, <1>11, <1>14, <1>15 DEF Idles

-----------------------------------------------------------------------------
(* Every step keeps the invariant.                                         *)

(* The steps of a call that has something to do.                           *)
LEMMA CallSteps ==
    ASSUME AccountInv, NEW h \in Slots,
           Query(h) \/ QueryFails(h) \/ FindOrCreate(h) \/ FindUser(h) \/ FindProfile(h) \/ ReadCode(h) \/ DrawCode(h)
    PROVE  CallRuns(h)
<1>1. Shapes /\ Valid(db)
    BY DEF AccountInv, SpentInv
<1>. QED
    BY <1>1, QueryRuns, QueryFailsRuns, FindOrCreateRuns, FindUserRuns, FindProfileRuns, ReadCodeRuns, DrawCodeRuns

(* What a signed-in user may begin.                                        *)
LEMMA MineOpens ==
    ASSUME Shapes, Valid(db), NEW h \in Slots, request[h] = NoRequest, NEW d \in Apps,
           \/ Refresh(h, d) \/ MyCode(h, d) \/ CreatePassword(h, d) \/ DeleteAccount(h, d)
           \/ DeleteVendorAccount(h, d)
           \/ \E main \in BOOLEAN : CreateAddress(h, d, main) \/ \E a \in DOMAIN address : UpdateAddress(h, d, a, main)
           \/ \E a \in DOMAIN address : RemoveAddress(h, d, a)
    PROVE  Opens(h)
<1>1. PICK u : u = Me(d)
    OBVIOUS
<1>2. SignedIn(d) => u \in 0 .. lastKey
    BY <1>1, AUser DEF SignedIn
<1>3. CASE Refresh(h, d)
    BY <1>3, RefreshOpens
<1>4. CASE MyCode(h, d)
    BY <1>1, <1>2, <1>4, MyCodeOpens DEF MyCode
<1>5. CASE CreatePassword(h, d)
    BY <1>1, <1>2, <1>5, SetPasswordOpens DEF CreatePassword
<1>6. CASE DeleteAccount(h, d)
  <2>1. PICK close \in BOOLEAN : close <=> user[u].role \in {"delivery_partner", "vendor"}
      OBVIOUS
  <2>2. u \in 0 .. lastKey
      BY <1>2, <1>6 DEF DeleteAccount
  <2>3. Begin(h, d, "deleteAccount", u,
              (IF close THEN Todo("close") ELSE <<>>) \o Todo("dropDocuments") \o Departure)
      BY <1>1, <1>6, <2>1 DEF DeleteAccount
  <2>. QED
      BY <2>2, <2>3, DeleteAccountOpens
<1>7. CASE \E main \in BOOLEAN : CreateAddress(h, d, main)
  <2>1. PICK main \in BOOLEAN : CreateAddress(h, d, main)
      BY <1>7
  <2>2. PICK q : q = [do |-> "addAddress", id |-> None, value |-> main]
      OBVIOUS
  <2>3. q \in Queries /\ q.do = "addAddress"
      BY <2>2, TheQueries DEF None
  <2>4. u \in 0 .. lastKey /\ Begin(h, d, "address", u, ClearDefault(main) \o <<q>>)
      BY <1>1, <1>2, <2>1, <2>2 DEF CreateAddress, OnRow
  <2>. QED
      BY <2>3, <2>4, AddressOpens
<1>8. CASE \E main \in BOOLEAN : \E a \in DOMAIN address : UpdateAddress(h, d, a, main)
  <2>1. PICK main \in BOOLEAN, a \in DOMAIN address : UpdateAddress(h, d, a, main)
      BY <1>8
  <2>2. PICK q : q = [do |-> "setAddress", id |-> a, value |-> main]
      OBVIOUS
  <2>3. a \in Nat
      BY DEF Shapes, Tables
  <2>4. q \in Queries /\ q.do = "setAddress"
      BY <2>2, <2>3, TheQueries
  <2>5. u \in 0 .. lastKey /\ Begin(h, d, "address", u, ClearDefault(main) \o <<q>>)
      BY <1>1, <1>2, <2>1, <2>2 DEF UpdateAddress, OnRow
  <2>. QED
      BY <2>4, <2>5, AddressOpens
<1>9. CASE \E a \in DOMAIN address : RemoveAddress(h, d, a)
  <2>1. PICK a \in DOMAIN address : RemoveAddress(h, d, a)
      BY <1>9
  <2>2. PICK q : q = [do |-> "dropAddress", id |-> a, value |-> TRUE]
      OBVIOUS
  <2>3. a \in Nat
      BY DEF Shapes, Tables
  <2>4. q \in Queries /\ q.do = "dropAddress"
      BY <2>2, <2>3, TheQueries
  <2>5. u \in 0 .. lastKey /\ Begin(h, d, "address", u, <<q>>)
      BY <1>1, <1>2, <2>1, <2>2 DEF RemoveAddress, OnRow
  <2>6. Plan("address", <<q>>)
      BY <2>4, OnePlan DEF Deletions
  <2>. QED
      BY <2>5, <2>6, PlannedOpens DEF LetsIn, Enrols
<1>10. CASE DeleteVendorAccount(h, d)
    BY <1>1, <1>2, <1>10, DeleteVendorAccountOpens DEF DeleteVendorAccount
<1>. QED
    BY <1>3, <1>4, <1>5, <1>6, <1>7, <1>8, <1>9, <1>10

(* What someone who is signed out may begin.                               *)
LEMMA SigningInOpens ==
    ASSUME Shapes, Valid(db), NEW h \in Slots, request[h] = NoRequest, NEW d \in Apps, NEW p \in Phones,
           \/ \E r \in Roles : \/ RequestOtp(h, d, p, r) \/ RequestForgotPassword(h, d, p, r)
                               \/ \E right \in BOOLEAN : VerifyOtp(h, d, p, r, right) \/ ResetPasswordWithOtp(h, d, p, r, right)
           \/ CustomerLogin(h, d, p) \/ PartnerLogin(h, d, p) \/ VendorLogin(h, d, p) \/ AdminLogin(h, d, p)
           \/ \E c \in Codes \cup {None} : CustomerRegister(h, d, p, c)
           \/ PartnerRegister(h, d, p) \/ VendorRegister(h, d, p)
    PROVE  Opens(h)
<1>1. CASE \E r \in Roles : RequestOtp(h, d, p, r) \/ RequestForgotPassword(h, d, p, r)
    BY <1>1, SendOtpOpens DEF RequestOtp, RequestForgotPassword
<1>2. CASE \E r \in Roles : \E right \in BOOLEAN : VerifyOtp(h, d, p, r, right) \/ ResetPasswordWithOtp(h, d, p, r, right)
    BY <1>2, VerifyOtpOpens, ResetPasswordOpens
<1>3. CASE CustomerLogin(h, d, p) \/ VendorLogin(h, d, p) \/ AdminLogin(h, d, p)
    BY <1>3, LoginOpens DEF CustomerLogin, VendorLogin, AdminLogin
<1>4. CASE PartnerLogin(h, d, p)
    BY <1>4, PartnerLoginOpens
<1>5. CASE \E c \in Codes \cup {None} : CustomerRegister(h, d, p, c)
    BY <1>5, CustomerRegisterOpens
<1>6. CASE PartnerRegister(h, d, p) \/ VendorRegister(h, d, p)
    BY <1>6, RegisterOpens DEF PartnerRegister, VendorRegister, RoleNames
<1>. QED
    BY <1>1, <1>2, <1>3, <1>4, <1>5, <1>6

(* The steps there are.                                                    *)
LEMMA StepsAre ==
    ASSUME AccountInv, AccountNext
    PROVE  \/ \E h \in Slots : CallRuns(h) \/ Stops(h) \/ Opens(h)
           \/ Tick \/ \E c \in DOMAIN otp : Expire(c)
           \/ \E d \in Apps : RefreshRefused(d)
<1>1. Shapes /\ Valid(db)
    BY DEF AccountInv, SpentInv
<1>2. CASE \E h \in Slots : Query(h) \/ QueryFails(h) \/ FindOrCreate(h) \/ FindUser(h) \/ FindProfile(h)
                              \/ ReadCode(h) \/ DrawCode(h)
    BY <1>2, CallSteps
<1>3. CASE \E h \in Slots : Answer(h) \/ Cut(h)
    BY <1>1, <1>3, AnswerStops
<1>4. CASE Tick \/ \E c \in DOMAIN otp : Expire(c)
    BY <1>4
<1>5. CASE \E d \in Apps : RefreshRefused(d)
    BY <1>5
<1>6. CASE \E h \in Slots : Free(h) /\ \E d \in Apps :
             \/ Refresh(h, d) \/ MyCode(h, d) \/ CreatePassword(h, d) \/ DeleteAccount(h, d)
             \/ DeleteVendorAccount(h, d)
             \/ \E main \in BOOLEAN : CreateAddress(h, d, main) \/ \E a \in DOMAIN address : UpdateAddress(h, d, a, main)
             \/ \E a \in DOMAIN address : RemoveAddress(h, d, a)
    BY <1>1, <1>6, MineOpens DEF Free
<1>7. CASE \E h \in Slots : Free(h) /\ \E d \in Apps, p \in Phones :
             \/ \E r \in Roles : \/ RequestOtp(h, d, p, r) \/ RequestForgotPassword(h, d, p, r)
                                 \/ \E right \in BOOLEAN : VerifyOtp(h, d, p, r, right) \/ ResetPasswordWithOtp(h, d, p, r, right)
             \/ CustomerLogin(h, d, p) \/ PartnerLogin(h, d, p) \/ VendorLogin(h, d, p) \/ AdminLogin(h, d, p)
             \/ \E c \in Codes \cup {None} : CustomerRegister(h, d, p, c)
             \/ PartnerRegister(h, d, p) \/ VendorRegister(h, d, p)
    BY <1>1, <1>7, SigningInOpens DEF Free
<1>8. CASE \E h \in Slots : Free(h) /\ \E p \in Phones, r \in Roles, on, withAddress \in BOOLEAN : CreateUser(h, p, r, on, withAddress)
    BY <1>1, <1>8, CreateUserOpens DEF Free
<1>9. CASE \E h \in Slots : Free(h) /\ \E u \in DOMAIN user, fields \in Changes : UpdateUser(h, u, fields)
    BY <1>1, <1>9, UpdateUserOpens DEF Free
<1>10. CASE \E h \in Slots : Free(h) /\ \E u \in DOMAIN user :
              DeleteUser(h, u) \/ DeleteAdminMember(h, u) \/ ResetAdminVendorPassword(h, u)
    BY <1>1, <1>10, AUser, DeletionOpens, ResetVendorOpens DEF Free, DeleteUser, DeleteAdminMember
<1>. QED
    BY <1>2, <1>3, <1>4, <1>5, <1>6, <1>7, <1>8, <1>9, <1>10 DEF AccountNext

(* Every step keeps the invariant.                                         *)
LEMMA StepKeeps ==
    ASSUME AccountInv, AccountNext, Histories
    PROVE  AccountInv'
<1>1. Shapes /\ Valid(db)
    BY DEF AccountInv, SpentInv
<1>2. CASE \E h \in Slots : CallRuns(h) \/ Stops(h) \/ Opens(h)
    BY <1>2, RunKeeps, StopKeeps, OpenKeeps
<1>3. CASE Tick \/ (\E c \in DOMAIN otp : Expire(c)) \/ \E d \in Apps : RefreshRefused(d)
    BY <1>1, <1>3, TickIdles, ExpireIdles, RefusedIdles, IdleKeeps
<1>. QED
    BY <1>2, <1>3, StepsAre

(* So does a step that changes nothing.                                    *)
LEMMA NothingKeeps ==
    ASSUME AccountInv, UNCHANGED accountHistory
    PROVE  AccountInv'
<1>1. /\ UNCHANGED <<db, request, device, now, lastKey, cuts>> /\ UNCHANGED <<alone, told, enrolled, accepted, ended>>
      /\ Shapes /\ Valid(db) /\ CodeInv /\ EnrolInv /\ SpentInv /\ SessionInv
    BY DEF accountHistory, accountVars, AccountInv, SpentInv
<1>2. user' = user /\ profile' = profile /\ token' = token /\ otp' = otp /\ documents' = documents /\ address' = address
    BY <1>1 DEF user, profile, token, otp, documents, address
<1>3. Shapes'
    BY <1>1, <1>2 DEF Shapes, Tables, IsRequest, IsList
<1>4. CodeInv' /\ EnrolInv'
    BY <1>1, <1>2 DEF CodeInv, EnrolInv, EnrolledHasProfile, AllLate, WillEnrol
<1>5. SpentInv'
  <2>1. PICK x : x = db
      OBVIOUS
  <2>2. Valid(x) /\ db' = x
      BY <1>1, <2>1
  <2>3. Valid(db)'
      BY <2>2 DEF Valid
  <2>4. Spent' = Spent
      BY <1>1, <1>2 DEF Spent, Spends
  <2>. QED
      BY <1>1, <2>3, <2>4 DEF SpentInv
<1>6. SessionInv'
    BY <1>1, <1>2 DEF SessionInv, AppInv, KnownToken, Revokes, AllLate
<1>. QED
    BY <1>3, <1>4, <1>5, <1>6 DEF AccountInv

(* The invariant holds at first.                                           *)
LEMMA AccountStarts ==
    ASSUME MCAccountInit
    PROVE  AccountInv
<1>1. /\ db = FirstDb /\ device = FirstDevices /\ request = [h \in Slots |-> NoRequest]
      /\ now = 0 /\ lastKey = FirstKey /\ cuts = 0 /\ lastKey \in Nat
      /\ alone = TRUE /\ told = {} /\ enrolled = {} /\ accepted = 0 /\ ended = {}
    BY AccountAssumption DEF MCAccountInit, AccountInit
<1>2. \A h \in Slots : request[h] = NoRequest
    BY <1>1
<1>3. /\ user = FirstDb.user /\ profile = FirstDb.profile /\ documents = FirstDb.documents
      /\ token = FirstDb.token /\ otp = FirstDb.otp /\ address = FirstDb.address
    BY <1>1 DEF user, profile, documents, token, otp, address
<1>4. Tables
  <2>1. db = [user |-> user, profile |-> profile, documents |-> documents, token |-> token, otp |-> otp, address |-> address]
      BY <1>1, <1>3, AccountAssumption
  <2>2. DOMAIN user \cup DOMAIN token \cup DOMAIN otp \cup DOMAIN address \subseteq 1 .. lastKey
      BY <1>1, <1>3, AccountAssumption
  <2>3. user \in [DOMAIN user -> UserRows] /\ otp \in [DOMAIN otp -> OtpRows]
      BY <1>3, AccountAssumption
  <2>4. token \in [DOMAIN token -> [user : Nat, revoked : Nat \cup {Never}]]
    <3>1. token \in [DOMAIN token -> [user : Nat, revoked : {Never, 0}]]
        BY <1>3, AccountAssumption
    <3>. QED
        BY <3>1
  <2>5. device \in [Apps -> [token : Nat, user : Nat, since : Nat \cup {Never}]]
    <3>1. device \in [Apps -> [token : Nat, user : Nat, since : {Never}]]
        BY <1>1, AccountAssumption
    <3>. QED
        BY <3>1
  <2>. QED
      BY <1>1, <2>1, <2>2, <2>3, <2>4, <2>5 DEF Tables
<1>5. Shapes
    BY <1>1, <1>2, <1>4, NoRequestFits DEF Shapes
<1>6. CodeInv
    BY <1>1, <1>2, NoRequestIs DEF CodeInv
<1>7. EnrolInv
    BY <1>1, <1>2, NoRequestIs DEF EnrolInv, EnrolledHasProfile, Enrols
<1>8. SpentInv
  <2>1. Valid(db)
      BY <1>1, AccountAssumption
  <2>2. Spent \subseteq 1 .. lastKey
      BY <1>4 DEF Spent, Tables
  <2>3. PICK S : S = Spent
      OBVIOUS
  <2>4. Cardinality(S) \in Nat
      BY <1>1, <2>2, <2>3, MoreMembers
  <2>5. accepted <= Cardinality(Spent)
      BY <1>1, <2>3, <2>4
  <2>. QED
      BY <1>1, <1>2, <2>1, <2>5 DEF SpentInv
<1>9. SessionInv
  <2>1. ASSUME NEW d \in Apps
        PROVE  /\ device[d].since <= now
               /\ device[d].token # None =>
                    /\ device[d].token <= lastKey
                    /\ KnownToken(device[d].token, device[d].user, device[d].since)
                    /\ \A e \in Apps : e # d => device[e].token # device[d].token
    <3>1. device[d].since = Never
        BY <1>1, AccountAssumption
    <3>2. ASSUME device[d].token # None
          PROVE  /\ device[d].token <= lastKey
                 /\ KnownToken(device[d].token, device[d].user, device[d].since)
                 /\ \A e \in Apps : e # d => device[e].token # device[d].token
      <4>1. device[d] # SignedOut
          BY <3>2 DEF SignedOut
      <4>2. /\ device[d].token \in DOMAIN token /\ token[device[d].token] = [user |-> device[d].user, revoked |-> Never]
            /\ \A e \in Apps \ {d} : device[e].token # device[d].token
          BY <1>1, <1>3, <4>1, AccountAssumption
      <4>3. device[d].token <= lastKey
          BY <1>4, <4>2 DEF Tables
      <4>. QED
          BY <4>2, <4>3 DEF KnownToken
    <3>. QED
        BY <1>1, <3>1, <3>2 DEF Never
  <2>2. AppInv
      BY <1>2, <2>1, NoRequestIs, NothingToDo DEF AppInv
  <2>3. \A t \in DOMAIN token : token[t].revoked <= now
    <3>1. token \in [DOMAIN token -> [user : Nat, revoked : {Never, 0}]]
        BY <1>3, AccountAssumption
    <3>. QED
        BY <1>1, <3>1 DEF Never
  <2>. QED
      BY <1>2, <2>2, <2>3, NoRequestIs, NothingToDo DEF SessionInv, Deletions
<1>. QED
    BY <1>5, <1>6, <1>7, <1>8, <1>9 DEF AccountInv

(* Tables and calls keep their shapes; codes, rows, one-time passwords and *)
(* tokens are as the conjuncts of AccountInv say.                          *)
THEOREM AccountInvHolds == MCAccountSpec => []AccountInv
<1>1. MCAccountInit => AccountInv
    BY AccountStarts
<1>2. AccountInv /\ [MCAccountNext]_accountHistory => AccountInv'
    BY StepKeeps, NothingKeeps DEF MCAccountNext, Histories
<1>. QED
    BY <1>1, <1>2, PTL DEF MCAccountSpec

(* A referral code that a user was told stays his, whatever ran at once or *)
(* was cut short: ensureReferralCode (referral-code.ts) writes it only     *)
(* where there is none, and asks again when it found one.                  *)
THEOREM ToldCodesKept == MCAccountSpec => []ToldCodesStay
<1>1. AccountInv => ToldCodesStay
    BY DEF AccountInv, CodeInv, ToldCodesStay
<1>. QED
    BY <1>1, AccountInvHolds, PTL

(* Whoever was answered by partnerLogin, or by a registration as a rider   *)
(* or a vendor (auth.service.ts), has the row that goes with it, whatever  *)
(* was cut short before.                                                   *)
THEOREM EnrolledAreListed == MCAccountSpec => []EnrolledHasProfile
<1>1. AccountInv => EnrolledHasProfile
    BY DEF AccountInv, EnrolInv
<1>. QED
    BY <1>1, AccountInvHolds, PTL

(* As long as calls did not overlap, the codes sent to phones let in at    *)
(* most one call each (verifyOtp and resetPasswordWithOtp set consumedAt   *)
(* first).                                                                 *)
THEOREM CodesLetInOnce == MCAccountSpec => []CodeUsedOnce
<1>1. AccountInv => CodeUsedOnce
  <2>1. SUFFICES ASSUME AccountInv, alone PROVE accepted <= Cardinality(DOMAIN otp)
      BY DEF CodeUsedOnce
  <2>2. DOMAIN otp \subseteq 1 .. lastKey /\ lastKey \in Nat /\ accepted <= Cardinality(Spent) /\ accepted \in Nat
      BY <2>1 DEF AccountInv, Shapes, Tables, SpentInv
  <2>3. PICK S, T : S = Spent /\ T = DOMAIN otp
      OBVIOUS
  <2>4. S \subseteq T
      BY <2>3 DEF Spent
  <2>5. Cardinality(S) <= Cardinality(T) /\ Cardinality(S) \in Nat /\ Cardinality(T) \in Nat
      BY <2>2, <2>3, <2>4, MoreMembers
  <2>. QED
      BY <2>2, <2>3, <2>5
<1>. QED
    BY <1>1, AccountInvHolds, PTL

(* An app is signed out only after it had tried its token for as long as   *)
(* the grace of refresh (auth.service.ts), or when its account's deletion  *)
(* has begun: for any apps, calls and losses of answers.                   *)
THEOREM StaySignedIn == MCAccountSpec => NotLoggedOut
<1>. DEFINE Allowed ==
       \A d \in Apps :
         device[d].token # None /\ device'[d].token = None =>
           \/ device[d].since # Never /\ now - device[d].since >= Grace
           \/ device[d].user \in ended
<1>1. ASSUME AccountInv, AccountNext PROVE Allowed
  <2>1. SUFFICES ASSUME NEW d \in Apps, device[d].token # None, device'[d].token = None
                 PROVE  \/ device[d].since # Never /\ now - device[d].since >= Grace
                        \/ device[d].user \in ended
      OBVIOUS
  <2>2. /\ Shapes /\ Valid(db) /\ SessionInv
        /\ device \in [Apps -> [token : Nat, user : Nat, since : Nat \cup {Never}]]
        /\ token \in [DOMAIN token -> [user : Nat, revoked : Nat \cup {Never}]]
        /\ now \in Nat
      BY <1>1 DEF AccountInv, SpentInv, Shapes, Tables
  <2>3. device'[d] # device[d]
      BY <2>1
  <2>4. ASSUME NEW h \in Slots, Stops(h) PROVE device[d].user \in ended
    <3>1. Answer(h)
        BY <2>3, <2>4 DEF Stops
    <3>2. \/ device'[d] = SignedOut /\ request[h].what = "deleteAccount" /\ device[d].user = request[h].user
          \/ device'[d] = [token |-> request[h].token, user |-> request[h].user, since |-> Never] /\ request[h].token # None
        BY <2>2, <2>3, <3>1, AnsweredApps
    <3>3. request[h].what = "deleteAccount" /\ device[d].user = request[h].user
        BY <2>1, <3>2
    <3>. QED
        BY <2>2, <3>3 DEF SessionInv, Deletions
  <2>5. ASSUME NEW h \in Slots, CallRuns(h) \/ Opens(h) PROVE FALSE
    <3>1. CASE CallRuns(h)
        BY <2>3, <3>1 DEF CallRuns
    <3>2. CASE Opens(h)
        BY <2>1, <2>2, <3>2, OpenApps
    <3>. QED
        BY <2>5, <3>1, <3>2
  <2>6. ASSUME NEW e \in Apps, RefreshRefused(e)
        PROVE  \/ device[d].since # Never /\ now - device[d].since >= Grace
               \/ device[d].user \in ended
    <3>1. e = d
        BY <2>2, <2>3, <2>6 DEF RefreshRefused
    <3>2. PICK t, u, s : t = device[d].token /\ u = device[d].user /\ s = device[d].since
        OBVIOUS
    <3>3. ~ Accepted(t) /\ KnownToken(t, u, s) /\ s \in Nat \cup {Never}
        BY <2>1, <2>2, <2>6, <3>1, <3>2 DEF RefreshRefused, SessionInv, AppInv
    <3>4. CASE t \notin DOMAIN token
        BY <3>2, <3>3, <3>4 DEF KnownToken
    <3>5. CASE t \in DOMAIN token
      <4>1. token[t].revoked # Never /\ ~ (now - token[t].revoked < Grace) /\ token[t].revoked \in Nat
          BY <2>2, <3>3, <3>5 DEF Accepted, RotatedRecently
      <4>2. u \in ended \/ (s # Never /\ s <= token[t].revoked)
          BY <3>3, <3>5, <4>1 DEF KnownToken
      <4>3. Grace \in Nat
          BY AccountAssumption
      <4>4. s # Never /\ s <= token[t].revoked => now - s >= Grace
          BY <2>2, <3>3, <4>1, <4>3
      <4>. QED
          BY <3>2, <4>2, <4>4
    <3>. QED
        BY <3>4, <3>5
  <2>7. ASSUME Tick \/ \E c \in DOMAIN otp : Expire(c) PROVE FALSE
      BY <2>3, <2>7 DEF Tick, Expire
  <2>. QED
      BY <1>1, <2>4, <2>5, <2>6, <2>7, StepsAre
<1>2. AccountInv /\ [MCAccountNext]_accountHistory => [Allowed]_accountHistory
    BY <1>1 DEF MCAccountNext
<1>. QED
    BY <1>2, AccountInvHolds, PTL DEF MCAccountSpec, NotLoggedOut
=============================================================================
