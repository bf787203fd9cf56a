---------------------------- MODULE OpeningTimes ----------------------------
(***************************************************************************)
(* When a store is open and a dish is served: catalog.types.ts and         *)
(* meal-slots.ts.  Times are minutes, counted from the first midnight; a   *)
(* week is as long as Days says.                                           *)
(***************************************************************************)
EXTENDS Integers, FiniteSets

CONSTANTS MinutesPerDay, Days, MealSlots, DefaultTimings

ASSUME OpeningTimesAssumption ==
    /\ MinutesPerDay \in Nat \ {0} /\ Days \in Nat \ {0}
    /\ DefaultTimings \in [MealSlots -> [start : 0..MinutesPerDay - 1, end : 0..MinutesPerDay - 1]]
    /\ \A s \in MealSlots : DefaultTimings[s].start # DefaultTimings[s].end

Minutes == 0..MinutesPerDay - 1
Timing == {t \in [start : Minutes, end : Minutes] : t.start # t.end}

Minute(now) == now % MinutesPerDay
Day(now) == (now \div MinutesPerDay) % Days

(* A weekly schedule has an entry for some of the days.                    *)
IsWithinSchedule(hours, now) ==
    /\ Day(now) \in DOMAIN hours
    /\ hours[Day(now)].isOpen
    /\ hours[Day(now)].from <= Minute(now) /\ Minute(now) < hours[Day(now)].to

IsVendorOpenNow(isOpen, hours, now) ==
    isOpen /\ (DOMAIN hours = {} \/ IsWithinSchedule(hours, now))

(* A restaurant sets the windows of some of the slots.                     *)
EffectiveMealTimings(stored) ==
    [s \in MealSlots |-> IF s \in DOMAIN stored THEN stored[s] ELSE DefaultTimings[s]]

(* An end before the start is on the next day.                             *)
IsWithin(t, minute) ==
    IF t.start < t.end THEN t.start <= minute /\ minute < t.end
    ELSE t.start <= minute \/ minute < t.end

MealSlotsNow(timings, now) == {s \in MealSlots : IsWithin(timings[s], Minute(now))}

IsServedNow(slots, timings, now) == slots = {} \/ slots \cap MealSlotsNow(timings, now) # {}

-----------------------------------------------------------------------------
Elapsed(from, to) == IF from <= to THEN to - from ELSE to - from + MinutesPerDay

(* A window is open from its start for as long as it lasts, whether or not *)
(* midnight is in between, and at no other time.                           *)
OpenAsLongAsItLasts(t, minute) ==
    IsWithin(t, minute) <=> Elapsed(t.start, minute) < Elapsed(t.start, t.end)
=============================================================================
