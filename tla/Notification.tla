----------------------------- MODULE Notification -----------------------------
(***************************************************************************)
(* Pushes, mails and texts (notification.service.ts, fcm-push.provider.ts):*)
(* an app registers the token of its installation, an event schedules one  *)
(* job per user and channel on the in-process queue, the job sends and     *)
(* writes its log row, and tokens that Firebase calls dead are dropped.    *)
(*                                                                         *)
(* Installations, tokens and Firebase are external: a token is dead from   *)
(* the moment its app is installed again.  One platform: a user has at     *)
(* most one token on it.  What a message says, what its log row says of    *)
(* the outcome and who may read the log are left out.                      *)
(***************************************************************************)
EXTENDS Integers, FiniteSets

CONSTANTS
    Users, Devices, Admins,
    Handlers,                      \* the registrations that can be under way at once
    Reachable,                     \* Users -> the other channels they can be reached on
    FirstApps, FirstTokens, FirstId,   \* app, row and lastId at the start
    MaxSignIns, MaxReinstalls, MaxJobs, MaxRestarts   \* bounds

Nobody == "nobody"
Channels == {"push", "email", "sms"}

ASSUME NotificationAssumption ==
    /\ {MaxSignIns, MaxReinstalls, MaxJobs, MaxRestarts} \subseteq Nat
    /\ Nobody \notin Users /\ Admins \subseteq Users
    /\ \A u \in Users : Reachable[u] \subseteq {"email", "sms"}
    /\ FirstId \in Nat
    /\ FirstApps \in [Devices -> [user : Users \cup {Nobody}, token : 1 .. FirstId]]
    /\ \A d, e \in Devices : FirstApps[d].token = FirstApps[e].token => d = e
    /\ DOMAIN FirstTokens \subseteq 1 .. FirstId
    /\ FirstTokens \in [DOMAIN FirstTokens -> [user : Users, token : 1 .. FirstId]]
    /\ \A i, k \in DOMAIN FirstTokens :
          FirstTokens[i].token = FirstTokens[k].token => FirstTokens[i].user = FirstTokens[k].user

VARIABLES
    app,        \* on each device: who is signed in, the installation's token
    row,        \* deviceTokens by id: of whom, which token
    call,       \* the registrations under way, of whom and with which token
    job,        \* the jobs of the queue, and those that have begun
    logged,      \* the jobs that are over, with a row in notificationLog or lost
    lastId, signIns, reinstalls, restarts

vars == <<app, row, call, job, logged, lastId, signIns, reinstalls, restarts>>

Idle == [step |-> "idle", user |-> Nobody, token |-> 0, id |-> 0]

Init ==
    /\ app = FirstApps /\ row = FirstTokens
    /\ call = [h \in Handlers |-> Idle]
    /\ job = [j \in {} |-> Nobody] /\ logged = {}
    /\ lastId = FirstId
    /\ signIns = 0 /\ reinstalls = 0 /\ restarts = 0

Installed(t) == \E d \in Devices : app[d].token = t
RowsOf(u) == {i \in DOMAIN row : row[i].user = u}
Put(f, i, x) == [k \in DOMAIN f \cup {i} |-> IF k = i THEN x ELSE f[k]]
Without(S) == [i \in DOMAIN row \ S |-> row[i]]

-----------------------------------------------------------------------------
(* registerDeviceToken.  Nothing makes a phone wait: it may register again *)
(* or for somebody else, sign out or be installed again meanwhile.         *)

Going(h, step) == call[h].step = step
Goes(h, x) == call' = [call EXCEPT ![h] = x]

SignIn(h, d, u) ==
    /\ call[h] = Idle /\ signIns < MaxSignIns /\ app[d].user # u
    /\ signIns' = signIns + 1
    /\ app' = [app EXCEPT ![d].user = u]
    /\ Goes(h, [step |-> "take", user |-> u, token |-> app[d].token, id |-> 0])
    /\ UNCHANGED <<row, job, logged, lastId, reinstalls, restarts>>

(* Mutant: the accounts that used the device before keep its token.        *)
NobodyElse(u, t) == {}

OthersWith(u, t) == {i \in DOMAIN row : row[i].token = t /\ row[i].user # u}

TakeToken(h) ==
    /\ Going(h, "take")
    /\ row' = Without(OthersWith(call[h].user, call[h].token))
    /\ Goes(h, [call[h] EXCEPT !.step = "read"])
    /\ UNCHANGED <<app, job, logged, lastId, signIns, reinstalls, restarts>>

ReadRow(h) ==
    /\ Going(h, "read")
    /\ \E i \in IF RowsOf(call[h].user) = {} THEN {0} ELSE RowsOf(call[h].user) :
          Goes(h, [call[h] EXCEPT !.step = "write", !.id = i])
    /\ UNCHANGED <<app, row, job, logged, lastId, signIns, reinstalls, restarts>>

(* An update by id, or an insert that device_tokens_user_platform_idx may  *)
(* refuse.                                                                 *)
WriteRow(h) ==
    LET c == call[h]
        fresh == c.id = 0 /\ RowsOf(c.user) = {}
    IN
    /\ Going(h, "write")
    /\ row' = IF fresh THEN Put(row, lastId + 1, [user |-> c.user, token |-> c.token])
              ELSE IF c.id \in DOMAIN row THEN [row EXCEPT ![c.id].token = c.token]
              ELSE row
    /\ lastId' = IF fresh THEN lastId + 1 ELSE lastId
    /\ Goes(h, Idle)
    /\ UNCHANGED <<app, job, logged, signIns, reinstalls, restarts>>

(* unregisterDeviceToken, with the token or for all of a user's devices;   *)
(* an app without a connection just forgets its user.                      *)
SignOut(d) ==
    LET u == app[d].user IN
    /\ u # Nobody
    /\ app' = [app EXCEPT ![d].user = Nobody]
    /\ \/ row' = Without({i \in RowsOf(u) : row[i].token = app[d].token})
       \/ row' = Without(RowsOf(u))
       \/ row' = row
    /\ UNCHANGED <<call, job, logged, lastId, signIns, reinstalls, restarts>>

Reinstall(d) ==
    /\ reinstalls < MaxReinstalls
    /\ reinstalls' = reinstalls + 1
    /\ lastId' = lastId + 1
    /\ app' = [app EXCEPT ![d] = [user |-> Nobody, token |-> lastId']]
    /\ UNCHANGED <<row, call, job, logged, signIns, restarts>>

-----------------------------------------------------------------------------
(* notifyPush, notifyEmail and notifySms schedule a job each.              *)

NewJob(u, channel) == [user |-> u, channel |-> channel, step |-> "queued", left |-> {}, dead |-> {}]

(* Keys of the queue are random, so no job replaces another.               *)
Scheduled == DOMAIN job \cup logged

Schedule(specs) ==
    LET first == Cardinality(Scheduled) + 1
        ids == first .. first + Cardinality(specs) - 1
    IN /\ specs # {} /\ first + Cardinality(specs) - 1 <= MaxJobs
       /\ \E order \in [ids -> specs] :
             /\ \A s \in specs : \E i \in ids : order[i] = s
             /\ job' = [i \in DOMAIN job \cup ids |->
                           IF i \in ids THEN NewJob(order[i][1], order[i][2]) ELSE job[i]]
       /\ UNCHANGED <<app, row, call, logged, lastId, signIns, reinstalls, restarts>>

Notify(u, channel) == Schedule({<<u, channel>>})

(* sendSupportMessage, by notifyAllAdminsEmail and notifyAllAdminsPush.    *)
SendSupportMessage == Schedule(Admins \X {"email", "push"})

(* sendAdminNotification: a mail or a text only for whoever has an address *)
(* or a number.                                                            *)
SendAdminNotification(target, channels) ==
    Schedule({s \in target \X channels : s[2] = "push" \/ s[2] \in Reachable[s[1]]})

Sets(j, x) == job' = [job EXCEPT ![j] = x]

(* A job begins by reading the user's tokens, or the user's row; a mail or *)
(* a text is then sent, or there is no address.                            *)
Begins(j) ==
    LET tokens == {row[i].token : i \in RowsOf(job[j].user)} IN
    /\ job[j].step = "queued"
    /\ Sets(j, IF job[j].channel = "push" /\ tokens # {}
               THEN [job[j] EXCEPT !.step = "send", !.left = tokens]
               ELSE [job[j] EXCEPT !.step = "log"])
    /\ UNCHANGED <<app, row, call, logged, lastId, signIns, reinstalls, restarts>>

(* Firebase's answer: a dead token is refused as such; any other push goes *)
(* through or, after one retry, fails, which only the log row tells.       *)
Send(j, t) ==
    /\ job[j].step = "send" /\ t \in job[j].left
    /\ Sets(j, [job[j] EXCEPT !.step = IF job[j].left = {t} THEN "prune" ELSE @,
                              !.left = @ \ {t},
                              !.dead = @ \cup (IF Installed(t) THEN {} ELSE {t})])
    /\ UNCHANGED <<app, row, call, logged, lastId, signIns, reinstalls, restarts>>

(* Mutant: every row of the user goes when one of its tokens was dead.     *)
UsersRows(u, dead) == IF dead = {} THEN {} ELSE RowsOf(u)

DeadRows(u, dead) == {i \in RowsOf(u) : row[i].token \in dead}

(* A failure here is caught.                                               *)
Prune(j) ==
    /\ job[j].step = "prune"
    /\ row' \in {Without(DeadRows(job[j].user, job[j].dead)), row}
    /\ Sets(j, [job[j] EXCEPT !.step = "log"])
    /\ UNCHANGED <<app, call, logged, lastId, signIns, reinstalls, restarts>>

(* A failure here is caught too.                                           *)
WriteLog(j) ==
    /\ job[j].step = "log"
    /\ logged' = logged \cup {j}
    /\ job' = [k \in DOMAIN job \ {j} |-> job[k]]
    /\ UNCHANGED <<app, row, call, lastId, signIns, reinstalls, restarts>>

Runs(j) == Begins(j) \/ (\E t \in job[j].left : Send(j, t)) \/ Prune(j) \/ WriteLog(j)

(* Jobs are in memory, and lost.                                           *)
Restart ==
    /\ restarts < MaxRestarts /\ (DOMAIN job # {} \/ \E h \in Handlers : call[h] # Idle)
    /\ restarts' = restarts + 1
    /\ job' = [j \in {} |-> Nobody]
    /\ logged' = Scheduled
    /\ call' = [h \in Handlers |-> Idle]
    /\ UNCHANGED <<app, row, lastId, signIns, reinstalls>>

-----------------------------------------------------------------------------

Next ==
    \/ \E h \in Handlers, d \in Devices, u \in Users : SignIn(h, d, u)
    \/ \E h \in Handlers : TakeToken(h) \/ ReadRow(h) \/ WriteRow(h)
    \/ \E d \in Devices : SignOut(d) \/ Reinstall(d)
    \/ \E u \in Users, channel \in Channels : Notify(u, channel)
    \/ SendSupportMessage
    \/ \E target \in SUBSET Users, channels \in SUBSET Channels : SendAdminNotification(target, channels)
    \/ \E j \in DOMAIN job : Runs(j)
    \/ Restart

Spec == Init /\ [][Next]_vars

-----------------------------------------------------------------------------

(* What a job drops is the token of an installation that is gone, even     *)
(* when the app has registered again since the job read the tokens.        *)
LiveTokensStay ==
    [][\A j \in DOMAIN job :
         job[j].step = "prune" /\ job' # job =>
           \A i \in DOMAIN row \ DOMAIN row' : ~Installed(row[i].token)]_vars
=============================================================================
