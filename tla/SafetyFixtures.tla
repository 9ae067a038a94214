--------------------------- MODULE SafetyFixtures ---------------------------
(***************************************************************************)
(* The three safety contracts of fixtures/, each flawed and repaired, seen   *)
(* through the three counters p, q, r that observe() returns and that        *)
(* safety.py calls by these names:                                          *)
(*                                                                         *)
(*   accounting    allocated  spent      remaining                          *)
(*   reservation   available  reserved   settled                            *)
(*   request       phase      requested  approved                           *)
(*                                                                         *)
(* A call that a contract turns down, by an early return or by a revert,    *)
(* changes nothing: it is a stuttering step.  After every call the adapter   *)
(* reads the counters (independentSafetyProperty in observed.go, checked_state*)
(* in safety.py); a reading it must refuse ends the campaign with an error.  *)
(***************************************************************************)
EXTENDS Integers

CONSTANTS
  Capacity, \* 100 in the code
  Amounts   \* arguments of calls

FixtureAssumption == Capacity \in Nat /\ Capacity >= 3 /\ Amounts \subseteq Nat

VARIABLES kind, variant, p, q, r, started, reading

vars == <<kind, variant, p, q, r, started, reading>>

Kinds == {"accounting", "reservation", "request"}
Variants == {"flawed", "repaired"}
Flawed == variant = "flawed"

TypeOK ==
  /\ kind \in Kinds /\ variant \in Variants /\ started \in BOOLEAN
  /\ p \in Nat /\ q \in Nat /\ r \in Nat
  /\ reading \in {"accepted", "refused"}

\* compute_property, propertyHolds() and independentSafetyProperty alike.
Holds ==
  /\ kind = "accounting" => p = q + r
  /\ kind = "reservation" => p + q + r = Capacity
  /\ kind = "request" => r <= q

\* state_bounds of the scenarios and the contracts' own invariantHolds().
Bounded(x, y, z) ==
  /\ x <= (IF kind = "request" THEN 3 ELSE Capacity)
  /\ y <= Capacity /\ z <= Capacity

Init ==
  /\ kind \in Kinds /\ variant \in Variants
  /\ p = (IF kind = "reservation" THEN Capacity ELSE 0) /\ q = 0 /\ r = 0
  /\ started = FALSE /\ reading = "accepted"

\* The counters a call leaves, and what becomes of their reading.
Counters(x, y, z) ==
  /\ p' = x /\ q' = y /\ r' = z
  /\ reading' = (IF Bounded(x, y, z) THEN "accepted" ELSE "refused")
  /\ UNCHANGED <<kind, variant>>

\* The calls a contract takes as it stands; it turns the others down.
Accepts(call, amount) ==
  \/ kind = "accounting" /\ (\/ call = "open" /\ p = 0
                             \/ call = "spend" /\ p # 0 /\ amount <= r)
  \/ kind = "reservation" /\ (\/ call = "start"
                              \/ call = "reserve" /\ started /\ amount # 0 /\ amount <= p
                              \/ call = "settle" /\ started /\ amount # 0 /\ amount <= q)
  \/ kind = "request" /\ (\/ call = "start" /\ p = 0
                          \/ /\ call = "request" /\ p = 1
                             /\ amount # 0 /\ amount <= Capacity
                          \/ /\ call = "confirm" /\ p = 2
                             /\ amount # 0 /\ amount <= Capacity
                             /\ IF Flawed THEN amount >= q ELSE amount <= q)

\* A fault the properties must notice: a spent unit is not taken from the rest.
SpendTwice(amount) ==
  /\ Accepts("spend", amount)
  /\ IF Flawed /\ amount = r THEN Counters(p, q, 0) ELSE Counters(p, q + amount, r)
  /\ UNCHANGED started

\* Another: opening again starts a new period.
OpenAnew ==
  /\ kind = "accounting"
  /\ Counters(Capacity, 0, Capacity) /\ UNCHANGED started

Open ==
  /\ Accepts("open", 0)
  /\ Counters(Capacity, q, Capacity) /\ UNCHANGED started

Spend(amount) ==
  /\ Accepts("spend", amount)
  /\ IF Flawed /\ amount = r THEN Counters(p, q, 0) ELSE Counters(p, q + amount, r - amount)
  /\ UNCHANGED started

StartReservation ==
  kind = "reservation" /\ Accepts("start", 0) /\ started' = TRUE /\ Counters(p, q, r)

Reserve(amount) ==
  /\ Accepts("reserve", amount)
  /\ Counters(p - amount, q + amount, r) /\ UNCHANGED started

Settle(amount) ==
  /\ Accepts("settle", amount)
  /\ Counters(p, IF Flawed /\ amount = q THEN q ELSE q - amount, r + amount)
  /\ UNCHANGED started

StartRequest ==
  kind = "request" /\ Accepts("start", 0) /\ Counters(1, q, r) /\ UNCHANGED started

Request(amount) ==
  /\ Accepts("request", amount)
  /\ Counters(2, amount, r) /\ UNCHANGED started

Confirm(amount) ==
  /\ Accepts("confirm", amount)
  /\ Counters(3, q, amount) /\ UNCHANGED started

Call ==
  \/ Open \/ StartReservation \/ StartRequest
  \/ \E amount \in Amounts :
       \/ Spend(amount) \/ Reserve(amount) \/ Settle(amount)
       \/ Request(amount) \/ Confirm(amount)

Next == reading = "accepted" /\ Call

Spec == Init /\ [][Next]_vars

-----------------------------------------------------------------------------
\* No sequence of calls breaks the property of a repaired contract: what Stage 5
\* replays on it (stage5_repaired_fixture) never shows a violation.
RepairedKeepsProperty == ~Flawed => Holds

\* A violation is never undone by later calls: a sequence cut anywhere after it
\* still ends in a violation (the readings of its later calls agree with it).
ViolationStays == [][~Holds => ~Holds']_vars

\* Only the flawed reservation contract can leave its declared bounds, which
\* would end a campaign with an error instead of the violation it found.
RefusedOnlyAfterViolation ==
  reading = "refused" => kind = "reservation" /\ Flawed /\ ~Holds
=============================================================================
