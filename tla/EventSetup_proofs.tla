-------------------------- MODULE EventSetup_proofs --------------------------
(***************************************************************************)
(* Theorems of EventSetup.  What a request has read and holds              *)
(* (SetupInvariant) carries the rest: no participant registers at a closed *)
(* event, a hidden event is closed, the columns of the rules agree, and    *)
(* the caches are told of what they do not know.                           *)
(***************************************************************************)
EXTENDS EventSetup, FiniteSetTheorems, TLAPS

\* A registering request holds the lock of the event it has found open.
Enrolling(c) ==
    req[c].pc \in {"count", "store", "form", "insert"} /\ req[c].op \in Registering

HoldsOpenEvent(c) ==
    /\ eventLock = c
    /\ event.visible /\ event.status = "OPEN"
    /\ req[c].r \in Rows /\ regs[req[c].r] = "none"

\* What a request has in hand at each of its steps.
Knows(c) ==
    /\ req[c].pc = "write" =>
         \/ req[c].op = "rules" /\ req[c].seen \in Rules /\ req[c].new \in Rules
         \/ req[c].op \in EventEdits /\ req[c].seen \in Event /\ req[c].new \in Event
    /\ req[c].pc \in {"count", "store"} =>
         req[c].op \in Registering \cup {"list", "look"} /\ req[c].seen \in Event
    /\ req[c].pc \in {"form", "insert"} => req[c].op \in Registering
    /\ Enrolling(c) => HoldsOpenEvent(c)

SetupInv == TypeOK /\ \A c \in Reqs : Knows(c)

-----------------------------------------------------------------------------
(* Values of the operators.                                                *)

LEMMA UsedIsNat == Used \in Nat
<1>1. IsFiniteSet({r \in Rows : regs[r] = "CONFIRMED"})
  BY SetupAssumption, FS_Subset, {r \in Rows : regs[r] = "CONFIRMED"} \subseteq Rows
<1> QED BY <1>1, FS_CardinalityType DEF Used

LEMMA RemainingIsNat ==
    ASSUME NEW n \in Capacities
    PROVE  Remaining(n) \in Nat
BY UsedIsNat, SetupAssumption DEF Remaining

\* The UPDATE of an edit, column by column.
LEMMA MergedEvent ==
    ASSUME NEW s \in Event, NEW n \in Event, NEW e \in Event
    PROVE  /\ Merged(s, n, e) \in Event
           /\ Merged(s, n, e).visible = IF n.visible = s.visible THEN e.visible ELSE n.visible
           /\ Merged(s, n, e).status = IF n.status = s.status THEN e.status ELSE n.status
           /\ Merged(s, n, e).capacity =
                IF n.capacity = s.capacity THEN e.capacity ELSE n.capacity
<1> DEFINE m == Merged(s, n, e)
<1>1. DOMAIN e = {"visible", "status", "capacity"}
  BY DEF Event
<1>2. m = [visible |-> m.visible, status |-> m.status, capacity |-> m.capacity]
  BY <1>1 DEF Merged
<1>3. /\ m.visible = IF n.visible = s.visible THEN e.visible ELSE n.visible
      /\ m.status = IF n.status = s.status THEN e.status ELSE n.status
      /\ m.capacity = IF n.capacity = s.capacity THEN e.capacity ELSE n.capacity
  BY <1>1 DEF Merged
<1>4. m.visible \in BOOLEAN /\ m.status \in Statuses /\ m.capacity \in Capacities
  BY <1>3 DEF Event
<1> HIDE DEF m
<1>5. m \in Event
  BY <1>2, <1>4 DEF Event
<1> QED BY <1>3, <1>5 DEF m

\* An UPDATE that has read the current row writes what it wanted.
LEMMA MergedRules ==
    ASSUME NEW s \in Rules, NEW n \in Rules, NEW e \in Rules
    PROVE  /\ Merged(s, n, e) \in Rules
           /\ s = e => Merged(s, n, e) = n
<1> DEFINE m == Merged(s, n, e)
           cols == {"min", "max", "required", "subs", "style", "individual", "mode"}
<1>1. DOMAIN e = cols /\ DOMAIN n = cols
  BY DEF Rules
<1>2. \A k \in cols : m[k] = IF n[k] = s[k] THEN e[k] ELSE n[k]
  BY <1>1 DEF Merged
<1>3. m = [min |-> m.min, max |-> m.max, required |-> m.required, subs |-> m.subs,
           style |-> m.style, individual |-> m.individual, mode |-> m.mode]
  BY <1>1 DEF Merged
<1>4. /\ m.min \in Nat /\ m.max \in Nat /\ m.required \in Nat /\ m.subs \in Nat
      /\ m.style \in Styles \cup {"unset"} /\ m.individual \in BOOLEAN /\ m.mode \in Modes
  BY <1>2 DEF Rules
<1>5. ASSUME s = e
      PROVE  m = n
  <2>1. \A k \in cols : m[k] = n[k]
    BY <1>2, <1>5
  <2>2. n = [min |-> n.min, max |-> n.max, required |-> n.required, subs |-> n.subs,
             style |-> n.style, individual |-> n.individual, mode |-> n.mode]
    BY DEF Rules
  <2> QED BY <1>3, <2>1, <2>2
<1> HIDE DEF m
<1>6. m \in Rules
  BY <1>3, <1>4 DEF Rules
<1> QED BY <1>5, <1>6 DEF m

LEMMA RangeArithmetic ==
    /\ \A n \in Int : Clamp(1, MaxRequired, n) \in 1..MaxRequired
    /\ \A n \in Int : Clamp(0, MaxSubstitutes, n) \in 0..MaxSubstitutes
BY LimitsAssumption DEF Clamp, Greatest, Least

LEMMA RosterStyleIsStyle ==
    ASSUME NEW r \in Rules
    PROVE  RosterStyle(r) \in Styles
BY DEF RosterStyle, Rules, Styles

\* What the roster functions make of any rules, whatever is in the columns:
\* the sizes agree afterwards, and mode and individual stay as they are.
LEMMA RosterApplied ==
    ASSUME NEW r \in Rules, NEW e,
           e.style \in Styles \cup {Unset},
           e.min \in {Unset} \cup Nat, e.max \in {Unset} \cup Nat,
           e.required \in {Unset} \cup Nat, e.subs \in {Unset} \cup Nat
    PROVE  LET s == ApplyRoster(r, e) IN
           /\ s \in Rules /\ s.mode = r.mode /\ s.individual = r.individual
           /\ s.required = s.min /\ s.min \in 1..MaxRequired
           /\ s.min <= s.max /\ s.max <= MaxRequired + MaxSubstitutes
           /\ s.subs > 0 => s.max = s.min + s.subs
<1> DEFINE style == Given(e.style, RosterStyle(r))
           fixed == IF e.min # Unset THEN e.min
                    ELSE IF e.max # Unset THEN e.max
                    ELSE Given(e.required, r.min)
           low   == Greatest(1, Given(e.min, r.min))
           high  == Greatest(low, Given(e.max, OrElse(r.max, low)))
           s     == ApplyRoster(r, e)
<1>0. /\ r.min \in Nat /\ r.max \in Nat /\ r.required \in Nat /\ r.subs \in Nat
      /\ MaxRequired \in Nat \ {0} /\ MaxSubstitutes \in Nat
  BY LimitsAssumption DEF Rules
<1>1. style \in Styles
  BY RosterStyleIsStyle DEF Given
<1>2. fixed \in Nat /\ Given(e.required, r.required) \in Nat /\ Given(e.subs, r.subs) \in Nat
  BY <1>0 DEF Given
<1>3. low \in Nat /\ 1 <= low /\ high \in Nat /\ low <= high
  BY <1>0 DEF Given, Greatest, OrElse
<1> HIDE DEF style, fixed, low, high
<1>4. CASE style = "MEMBERS_SUBSTITUTES"
  <2> DEFINE q == Clamp(1, MaxRequired, Given(e.required, r.required))
             u == Least(MaxSubstitutes, Given(e.subs, r.subs))
  <2>1. q \in 1..MaxRequired /\ u \in 0..MaxSubstitutes
    BY <1>0, <1>2 DEF Clamp, Greatest, Least
  <2>2. s = [r EXCEPT !.required = q, !.subs = u, !.min = q, !.max = q + u, !.style = style]
    BY <1>4 DEF ApplyRoster, WithSubstitutes, style
  <2> HIDE DEF q, u, s
  <2>3. /\ s.required = q /\ s.min = q /\ s.subs = u /\ s.max = q + u
        /\ s.mode = r.mode /\ s.individual = r.individual
    BY <2>2 DEF Rules
  <2>4. q \in Nat /\ u \in Nat /\ q + u \in Nat /\ style \in Styles \cup {"unset"}
    BY <1>0, <1>1, <2>1
  <2>5. s \in Rules
    BY <2>2, <2>4 DEF Rules
  <2>6. QED BY <1>0, <2>1, <2>3, <2>5 DEF s
<1>5. CASE style = "FIXED"
  <2> DEFINE n == Clamp(1, MaxRequired, fixed)
  <2>1. n \in 1..MaxRequired
    BY <1>0, <1>2 DEF Clamp, Greatest, Least
  <2>2. s = [r EXCEPT !.min = n, !.max = n, !.required = n, !.subs = 0, !.style = style]
    BY <1>5 DEF ApplyRoster, style, fixed
  <2> HIDE DEF n, s
  <2>3. /\ s.required = n /\ s.min = n /\ s.subs = 0 /\ s.max = n
        /\ s.mode = r.mode /\ s.individual = r.individual
    BY <2>2 DEF Rules
  <2>4. n \in Nat /\ style \in Styles \cup {"unset"}
    BY <1>0, <1>1, <2>1
  <2>5. s \in Rules
    BY <2>2, <2>4 DEF Rules
  <2>6. QED BY <1>0, <2>1, <2>3, <2>5 DEF s
<1>6. CASE style = "RANGE"
  <2> DEFINE n == Least(MaxRequired, low)
             x == Least(MaxRequired + MaxSubstitutes, high)
  <2>1. n \in 1..MaxRequired /\ x \in Nat /\ n <= x /\ x <= MaxRequired + MaxSubstitutes
    BY <1>0, <1>3 DEF Least
  <2>2. s = [r EXCEPT !.min = n, !.max = x, !.required = n, !.subs = 0, !.style = style]
    BY <1>6 DEF ApplyRoster, style, low, high
  <2> HIDE DEF n, x, s
  <2>3. /\ s.required = n /\ s.min = n /\ s.subs = 0 /\ s.max = x
        /\ s.mode = r.mode /\ s.individual = r.individual
    BY <2>2 DEF Rules
  <2>4. n \in Nat /\ x \in Nat /\ style \in Styles \cup {"unset"}
    BY <1>0, <1>1, <2>1
  <2>5. s \in Rules
    BY <2>2, <2>4 DEF Rules
  <2>6. QED BY <1>0, <2>1, <2>3, <2>5 DEF s
<1> QED BY <1>1, <1>4, <1>5, <1>6 DEF Styles

\* Setting a mode keeps aligned rules aligned; the rules of an event without
\* teams are aligned whatever they were.
LEMMA ModeApplied ==
    ASSUME NEW r \in Rules, NEW mode \in Modes \cup {Unset}
    PROVE  LET s == WithMode(r, mode) IN
           /\ s \in Rules
           /\ s.mode = IF mode = Unset THEN r.mode ELSE mode
           /\ Aligned(r) => Aligned(s)
           /\ mode = "INDIVIDUAL_ONLY" => Aligned(s)
           /\ mode = "TEAM_ONLY" => ~ s.individual
<1> DEFINE s == WithMode(r, mode)
<1>0. /\ r.min \in Nat /\ r.max \in Nat /\ r.required \in Nat /\ r.subs \in Nat
      /\ MaxRequired \in Nat \ {0} /\ MaxSubstitutes \in Nat
  BY LimitsAssumption DEF Rules
<1>1. CASE mode = Unset
  BY <1>1, SetupAssumption DEF WithMode, Modes
<1>2. CASE mode # Unset /\ mode = "INDIVIDUAL_ONLY"
  <2>1. Clamp(1, MaxRequired, 1) = 1 /\ Least(MaxSubstitutes, 0) = 0
    BY <1>0 DEF Clamp, Greatest, Least
  <2> DEFINE t == [r EXCEPT !.individual = TRUE, !.required = 1, !.subs = 0]
             w == SyncLegacySizes(t)
  <2>2. t \in Rules /\ t.individual = TRUE /\ t.required = 1 /\ t.subs = 0
    BY DEF Rules
  <2>3. s = [w EXCEPT !.mode = "INDIVIDUAL_ONLY"]
    BY <1>2 DEF WithMode, ApplyMode
  <2> HIDE DEF s, t
  <2>4. w = [t EXCEPT !.required = 1, !.subs = 0, !.min = 1, !.max = 1]
    <3>1. w = WithSubstitutes(t, 1, 0)
      BY <2>1, <2>2 DEF SyncLegacySizes
    <3>2. 1 + 0 = 1
      OBVIOUS
    <3> QED BY <3>1, <3>2 DEF WithSubstitutes
  <2> HIDE DEF w
  <2>5. /\ w \in Rules /\ w.individual = TRUE /\ w.required = 1 /\ w.subs = 0
        /\ w.min = 1 /\ w.max = 1
    BY <2>2, <2>4 DEF Rules
  <2>6. /\ s \in Rules /\ s.individual = TRUE /\ s.required = 1 /\ s.subs = 0
        /\ s.min = 1 /\ s.max = 1 /\ s.mode = "INDIVIDUAL_ONLY"
    BY <2>3, <2>5 DEF Rules, Modes
  <2>7. QED BY <1>0, <1>2, <2>6 DEF s, Aligned
<1>3. CASE mode # Unset /\ mode # "INDIVIDUAL_ONLY"
  <2> DEFINE i == mode = "TEAM_OR_INDIVIDUAL"
  <2>1. mode \in {"TEAM_ONLY", "TEAM_OR_INDIVIDUAL"}
    BY <1>3 DEF Modes
  <2>2. s = [r EXCEPT !.individual = i, !.mode = mode]
    BY <1>3, <2>1 DEF WithMode, ApplyMode, Rules
  <2>3. i \in BOOLEAN /\ (mode = "TEAM_ONLY" => ~ i)
    OBVIOUS
  <2> HIDE DEF s, i
  <2>4. /\ s.individual = i /\ s.required = r.required /\ s.subs = r.subs
        /\ s.min = r.min /\ s.max = r.max /\ s.mode = mode
    BY <2>2 DEF Rules
  <2>5. s \in Rules
    BY <2>1, <2>2, <2>3 DEF Rules, Modes
  <2>6. QED BY <1>3, <2>1, <2>3, <2>4, <2>5 DEF s, Aligned
<1> QED BY <1>1, <1>2, <1>3

\* A new event has aligned rules.
LEMMA CreatedAligned ==
    ASSUME NEW b \in CreateBodies
    PROVE  Created(b) \in Rules /\ Aligned(Created(b))
<1> DEFINE v == Validated(b)
           t == [min |-> v.min, max |-> v.max, required |-> 0, subs |-> 0,
                 style |-> Given(v.custom, "unset"), individual |-> TRUE,
                 mode |-> v.mode]
           r == WithMode(t, v.mode)
<1>0. b \in Body /\ b.mode \in Modes /\ b.min \in Nat /\ b.max \in Nat
  BY SetupAssumption
<1>1. /\ v.mode = b.mode /\ v.style = b.style /\ v.custom = b.custom
      /\ v.min \in Nat /\ v.max \in Nat /\ v.required \in Nat /\ v.subs \in Nat
  <2>1. CASE b.required # Unset \/ b.subs # Unset
    <3> DEFINE q == Clamp(1, MaxRequired, OrElse(Given(b.required, 0), b.min))
               u == Clamp(0, MaxSubstitutes, Given(b.subs, b.max - b.min))
    <3>1. q \in Nat /\ u \in Nat
      BY <1>0, LimitsAssumption DEF Clamp, Greatest, Least, OrElse, Given, Body
    <3>2. v = [b EXCEPT !.required = q, !.subs = u, !.min = q, !.max = q + u]
      BY <2>1 DEF Validated
    <3> HIDE DEF q, u, v
    <3> QED BY <1>0, <3>1, <3>2 DEF Body
  <2>2. CASE ~ (b.required # Unset \/ b.subs # Unset)
    <3> DEFINE low == Clamp(1, MaxRequired, b.min)
               high == Greatest(low, Least(MaxRequired + MaxSubstitutes, b.max))
    <3>1. low \in Nat /\ high \in Nat
      BY <1>0, LimitsAssumption DEF Clamp, Greatest, Least
    <3>2. v = [b EXCEPT !.required = low, !.subs = 0, !.min = low, !.max = high]
      BY <2>2 DEF Validated
    <3> HIDE DEF low, high, v
    <3> QED BY <1>0, <3>1, <3>2 DEF Body
  <2> QED BY <2>1, <2>2
<1>2. Created(b) = IF v.mode = "INDIVIDUAL_ONLY" THEN r ELSE ApplyRoster(r, v)
  BY <1>1 DEF Created
<1> HIDE DEF v
<1>3. t \in Rules /\ v.mode \in Modes
  BY <1>0, <1>1 DEF Rules, Given, Body
<1>4. t.mode = v.mode /\ t.individual = TRUE
  OBVIOUS
<1> HIDE DEF t
<1>5. /\ r \in Rules /\ r.mode = v.mode
      /\ v.mode = "INDIVIDUAL_ONLY" => Aligned(r)
      /\ v.mode = "TEAM_ONLY" => ~ r.individual
  <2>1. v.mode # Unset
    BY <1>3, SetupAssumption
  <2> QED BY <1>3, <2>1, ModeApplied
<1> HIDE DEF r
<1>6. CASE v.mode = "INDIVIDUAL_ONLY"
  BY <1>2, <1>5, <1>6
<1>7. CASE v.mode # "INDIVIDUAL_ONLY"
  <2> DEFINE s == ApplyRoster(r, v)
  <2>1. v.style \in Styles \cup {Unset}
    BY <1>0, <1>1 DEF Body
  <2>2. /\ s \in Rules /\ s.mode = r.mode /\ s.individual = r.individual
        /\ s.required = s.min /\ s.min \in 1..MaxRequired
        /\ s.min <= s.max /\ s.max <= MaxRequired + MaxSubstitutes
        /\ s.subs > 0 => s.max = s.min + s.subs
    BY <1>1, <1>5, <2>1, RosterApplied
  <2> HIDE DEF s
  <2> QED BY <1>2, <1>5, <1>7, <2>2 DEF s, Aligned
<1> QED BY <1>6, <1>7

\* An administrator's patch of aligned rules leaves them aligned: a mode
\* without teams takes no sizes.
LEMMA PatchedAligned ==
    ASSUME NEW r \in Rules, NEW b \in RuleBodies
    PROVE  /\ Patched(r, b) \in Rules
           /\ Aligned(r) => Aligned(Patched(r, b))
<1> DEFINE t == [r EXCEPT !.style = Given(b.custom, r.style)]
           s == WithMode(t, b.mode)
           a == ApplyRoster(s, b)
<1>0. b \in Body
  BY SetupAssumption
<1>1. Patched(r, b) = IF RosterGiven(b) /\ s.mode # "INDIVIDUAL_ONLY" THEN a ELSE s
  BY DEF Patched
<1>2. t \in Rules /\ (Aligned(r) => Aligned(t))
  <2>1. Given(b.custom, r.style) \in Styles \cup {"unset"}
    BY <1>0 DEF Given, Body, Rules
  <2>2. t \in Rules
    BY <2>1 DEF Rules
  <2>3. /\ t.min = r.min /\ t.max = r.max /\ t.required = r.required /\ t.subs = r.subs
        /\ t.individual = r.individual /\ t.mode = r.mode
    BY DEF Rules
  <2> HIDE DEF t
  <2>4. Aligned(r) => Aligned(t)
    BY <2>3 DEF Aligned
  <2> QED BY <2>2, <2>4
<1> HIDE DEF t
<1>3. s \in Rules /\ (Aligned(t) => Aligned(s))
  BY <1>0, <1>2, ModeApplied DEF Body
<1> HIDE DEF s
<1>4. /\ a \in Rules /\ a.mode = s.mode /\ a.individual = s.individual
      /\ a.required = a.min /\ a.min \in 1..MaxRequired
      /\ a.min <= a.max /\ a.max <= MaxRequired + MaxSubstitutes
      /\ a.subs > 0 => a.max = a.min + a.subs
  <2>1. /\ b.style \in Styles \cup {Unset}
        /\ b.min \in {Unset} \cup Nat /\ b.max \in {Unset} \cup Nat
        /\ b.required \in {Unset} \cup Nat /\ b.subs \in {Unset} \cup Nat
    BY <1>0 DEF Body
  <2> QED BY <1>3, <2>1, RosterApplied
<1> HIDE DEF a
<1>5. s.mode # "INDIVIDUAL_ONLY" /\ Aligned(s) => Aligned(a)
  BY <1>4 DEF Aligned
<1> QED BY <1>1, <1>2, <1>3, <1>4, <1>5

\* An edit of the event keeps its type and a hidden event closed.
LEMMA EditedConsistent ==
    ASSUME NEW op \in EventEdits, NEW e \in Event, NEW n \in Capacities, Permitted(op, e)
    PROVE  /\ Edited(op, e, n) \in Event
           /\ Consistent(e) => Consistent(Edited(op, e, n))
<1> DEFINE x == Edited(op, e, n)
<1>1. CASE op = "publish"
  BY <1>1 DEF Edited, Event, Statuses, Consistent
<1>2. CASE op = "unpublish"
  BY <1>2 DEF Edited, Event, Statuses, Consistent
<1>3. CASE op = "open"
  BY <1>3 DEF Edited, Event, Statuses, Consistent, Permitted
<1>4. CASE op = "close"
  BY <1>4 DEF Edited, Event, Statuses, Consistent
<1>5. CASE op = "soon"
  BY <1>5 DEF Edited, Event, Statuses, Consistent, Permitted
<1>6. CASE op = "capacity"
  BY <1>6 DEF Edited, Event, Statuses, Consistent
<1> QED BY <1>1, <1>2, <1>3, <1>4, <1>5, <1>6 DEF EventEdits

-----------------------------------------------------------------------------
(* How a step changes what the requests have in hand.                      *)

LEMMA IdleRequest ==
    /\ Idle \in Request
    /\ \A op \in Ops : Dropping(op) \in Request
BY DEF Idle, Dropping, Request, Ops, Registering, EventEdits

\* A request that does nothing, or only has to drop the caches, holds nothing.
LEMMA RestKnows ==
    ASSUME NEW c \in Reqs, req[c].pc \in {"idle", "drop"}
    PROVE  Knows(c)
BY DEF Knows, Enrolling

\* A request another one's step leaves alone keeps what it knows, if it still
\* holds the open event.
LEMMA OthersKnow ==
    ASSUME SetupInv, NEW d \in Reqs, req'[d] = req[d],
           Enrolling(d) => HoldsOpenEvent(d)'
    PROVE  Knows(d)'
BY DEF Knows, Enrolling, SetupInv

\* Only the holder of the lock inserts a registration.
LEMMA OthersKeep ==
    ASSUME SetupInv, NEW c \in Reqs, NEW x, req' = [req EXCEPT ![c] = x],
           event' = event, \A r \in Rows : regs[r] = "none" => regs'[r] = "none" \/ eventLock = c,
           eventLock' = eventLock \/ eventLock \in {c, NoReq}
    PROVE  \A d \in Reqs \ {c} : Knows(d)'
<1> SUFFICES ASSUME NEW d \in Reqs \ {c}
             PROVE  Knows(d)'
  OBVIOUS
<1>1. req'[d] = req[d]
  BY DEF SetupInv, TypeOK
<1>2. Enrolling(d) => HoldsOpenEvent(d)
  BY DEF SetupInv, Knows
<1>3. Enrolling(d) => HoldsOpenEvent(d)'
  BY <1>1, <1>2, SetupAssumption DEF HoldsOpenEvent
<1> QED BY <1>1, <1>3, OthersKnow

\* The request itself ends, or has only the caches to drop.
LEMMA ActorRests ==
    ASSUME TypeOK, NEW c \in Reqs, NEW x \in {Idle} \cup {Dropping(op) : op \in Ops},
           req' = [req EXCEPT ![c] = x]
    PROVE  req' \in [Reqs -> Request] /\ Knows(c)'
<1>1. x \in Request /\ x.pc \in {"idle", "drop"}
  <2>1. CASE x = Idle
    BY <2>1, IdleRequest DEF Idle
  <2>2. ASSUME NEW op \in Ops, x = Dropping(op)
        PROVE  x \in Request /\ x.pc \in {"idle", "drop"}
    BY <2>2, IdleRequest DEF Idle, Dropping
  <2> QED BY <2>1, <2>2
<1>2. req' \in [Reqs -> Request] /\ req'[c] = x
  BY <1>1 DEF TypeOK
<1>3. Knows(c)'
  BY <1>1, <1>2 DEF Knows, Enrolling
<1> QED BY <1>2, <1>3

LEMMA SetupBeginEdit ==
    ASSUME SetupInv, NEW c \in Reqs, NEW op \in EventEdits, NEW n \in Capacities,
           BeginEdit(c, op, n)
    PROVE  SetupInv'
<1> DEFINE new == Edited(op, event, n)
           x == [Idle EXCEPT !.pc = "write", !.op = op, !.seen = event, !.new = new]
<1>0. TypeOK
  BY DEF SetupInv
<1>1. new \in Event /\ event \in Event
  BY <1>0, EditedConsistent DEF BeginEdit, TypeOK
<1>2. req' = [req EXCEPT ![c] = x]
  BY DEF BeginEdit, Start
<1> HIDE DEF new
<1>3. x \in Request /\ x.pc = "write" /\ x.op = op /\ x.seen = event /\ x.new = new
  BY <1>1 DEF Idle, Request, Ops
<1> HIDE DEF x
<1>4. req'[c] = x /\ req' \in [Reqs -> Request]
  BY <1>0, <1>2, <1>3 DEF TypeOK
<1>5. Knows(c)'
  BY <1>1, <1>3, <1>4 DEF Knows, Enrolling
<1>6. \A d \in Reqs \ {c} : Knows(d)'
  BY <1>2, OthersKeep DEF BeginEdit
<1>7. TypeOK'
  BY <1>0, <1>4, SetupAssumption DEF TypeOK, BeginEdit, Edit, caches, forms
<1> QED BY <1>5, <1>6, <1>7 DEF SetupInv

LEMMA SetupWriteEvent ==
    ASSUME SetupInv, NEW c \in Reqs, WriteEvent(c)
    PROVE  SetupInv'
<1> DEFINE seen == req[c].seen
           new  == req[c].new
           op   == req[c].op
<1>0. TypeOK /\ \A d \in Reqs : Knows(d)
  BY DEF SetupInv
<1>1. req[c].pc = "write" /\ op \in EventEdits /\ (Granted(c) \/ new = seen)
      /\ event' = Merged(seen, new, event)
      /\ req' = [req EXCEPT ![c] = Dropping(op)]
      /\ UNCHANGED <<rules, edits, regs, fields, answers, list, spots, eventLock>>
      /\ torn' \subseteq torn \cup {"event"}
  BY DEF WriteEvent, forms, caches
<1>2. seen \in Event /\ new \in Event
  BY <1>0, <1>1 DEF Knows, EventEdits
<1> HIDE DEF seen, new, op
<1>3. /\ event' \in Event
      /\ new = seen => event'.visible = event.visible /\ event'.status = event.status
  BY <1>0, <1>1, <1>2, MergedEvent DEF TypeOK
<1>4. req' \in [Reqs -> Request] /\ Knows(c)'
  BY <1>0, <1>1, ActorRests DEF Ops
<1>5. ASSUME NEW d \in Reqs \ {c}
      PROVE  Knows(d)'
  <2>1. req'[d] = req[d]
    BY <1>0, <1>1 DEF TypeOK
  <2>2. Enrolling(d) => HoldsOpenEvent(d)
    BY <1>0 DEF Knows
  <2>3. Enrolling(d) => new = seen
    BY <1>1, <2>2, SetupAssumption DEF HoldsOpenEvent, Granted
  <2>4. Enrolling(d) => HoldsOpenEvent(d)'
    BY <1>1, <1>3, <2>1, <2>2, <2>3 DEF HoldsOpenEvent
  <2> QED BY <2>1, <2>4, OthersKnow
<1>6. TypeOK'
  BY <1>0, <1>1, <1>3, <1>4 DEF TypeOK
<1> QED BY <1>4, <1>5, <1>6 DEF SetupInv

LEMMA SetupRules ==
    ASSUME SetupInv, NEW c \in Reqs,
           \/ \E b \in RuleBodies : BeginRules(c, b)
           \/ WriteRules(c)
    PROVE  SetupInv'
<1>0. TypeOK /\ \A d \in Reqs : Knows(d)
  BY DEF SetupInv
<1>1. ASSUME NEW b \in RuleBodies, BeginRules(c, b)
      PROVE  SetupInv'
  <2> DEFINE new == Patched(rules, b)
             x == [Idle EXCEPT !.pc = "write", !.op = "rules", !.seen = rules, !.new = new]
  <2>1. rules \in Rules /\ new \in Rules
    BY <1>0, PatchedAligned DEF TypeOK
  <2>2. req' = [req EXCEPT ![c] = x]
    BY <1>1 DEF BeginRules, Start
  <2> HIDE DEF new
  <2>3. x \in Request /\ x.pc = "write" /\ x.op = "rules" /\ x.seen = rules /\ x.new = new
    BY <2>1 DEF Idle, Request, Ops
  <2> HIDE DEF x
  <2>4. req'[c] = x /\ req' \in [Reqs -> Request]
    BY <1>0, <2>2, <2>3 DEF TypeOK
  <2>5. Knows(c)'
    BY <2>1, <2>3, <2>4 DEF Knows, Enrolling
  <2>6. \A d \in Reqs \ {c} : Knows(d)'
    BY <1>1, <2>2, OthersKeep DEF BeginRules
  <2>7. /\ UNCHANGED <<event, rules, torn, regs, fields, answers, list, spots, eventLock>>
        /\ edits < MaxEdits /\ edits' = edits + 1
    BY <1>1 DEF BeginRules, Edit, caches, forms
  <2>8. TypeOK'
    BY <1>0, <2>4, <2>7, SetupAssumption DEF TypeOK
  <2> QED BY <2>5, <2>6, <2>8 DEF SetupInv
<1>2. CASE WriteRules(c)
  <2>1. req[c].seen \in Rules /\ req[c].new \in Rules
    BY <1>0, <1>2 DEF Knows, WriteRules, EventEdits
  <2>2. rules' \in Rules
    BY <1>0, <1>2, <2>1, MergedRules DEF WriteRules, TypeOK
  <2>3. req' = [req EXCEPT ![c] = Dropping("rules")]
    BY <1>2 DEF WriteRules
  <2>4. req' \in [Reqs -> Request] /\ Knows(c)'
    BY <1>0, <2>3, ActorRests DEF Ops
  <2>5. \A d \in Reqs \ {c} : Knows(d)'
    BY <1>2, <2>3, OthersKeep DEF WriteRules
  <2>6. TypeOK'
    BY <1>0, <1>2, <2>2, <2>4 DEF TypeOK, WriteRules, caches, forms
  <2> QED BY <2>4, <2>5, <2>6 DEF SetupInv
<1> QED BY <1>1, <1>2

LEMMA SetupDelete ==
    ASSUME SetupInv, NEW c \in Reqs, NEW r \in Rows, Delete(c, r)
    PROVE  SetupInv'
<1>0. TypeOK
  BY DEF SetupInv
<1>1. /\ UNCHANGED <<event, rules, edits, torn, fields, list, spots, eventLock>>
      /\ req' = [req EXCEPT ![c] = Dropping("delete")]
      /\ regs[r] = "PENDING" /\ regs' = [regs EXCEPT ![r] = "deleted"]
      /\ answers' \subseteq answers
  BY DEF Delete, Start, setup, caches
<1>2. req' \in [Reqs -> Request] /\ Knows(c)'
  BY <1>0, <1>1, ActorRests DEF Ops
<1>3. \A s \in Rows : regs[s] = "none" => regs'[s] = "none"
  BY <1>0, <1>1 DEF TypeOK
<1>4. \A d \in Reqs \ {c} : Knows(d)'
  BY <1>1, <1>3, OthersKeep
<1>5. TypeOK'
  BY <1>0, <1>1, <1>2 DEF TypeOK, RegStates
<1> QED BY <1>2, <1>4, <1>5 DEF SetupInv

\* What a reader does with the places left, kept by whichever request.
LEMMA SetupCounted ==
    ASSUME SetupInv, NEW c \in Reqs, NEW left \in Nat, req[c].pc \in {"count", "store"},
           Counted(c, left), UNCHANGED <<setup, regs, forms>>,
           spots' \in [left : Nat, fresh : BOOLEAN] \cup {NoEntry}
    PROVE  SetupInv'
<1> DEFINE op == req[c].op
           x == [Idle EXCEPT !.pc = IF op = "team" THEN "insert" ELSE "form",
                             !.op = op, !.r = req[c].r]
<1>0. TypeOK /\ Knows(c)
  BY DEF SetupInv
<1>1. op \in Registering \cup {"list", "look"} /\ req[c].seen \in Event
  BY <1>0 DEF Knows
<1>2. \/ op \in Registering /\ req' = [req EXCEPT ![c] = x] /\ UNCHANGED <<list, eventLock>>
      \/ /\ req' = [req EXCEPT ![c] = Idle]
         /\ list' \in {list, ListEntry(req[c].seen)}
         /\ eventLock' = IF eventLock = c THEN NoReq ELSE eventLock
  BY DEF Counted, Finish
<1>3. ListEntry(req[c].seen) \in [shown : Statuses \cup {"unlisted"}, fresh : BOOLEAN]
  BY <1>1 DEF ListEntry, Shown, Event
<1>4. list' \in [shown : Statuses \cup {"unlisted"}, fresh : BOOLEAN] \cup {NoEntry}
  BY <1>0, <1>2, <1>3 DEF TypeOK
<1>5. eventLock' \in Reqs \cup {NoReq} /\ (eventLock' = eventLock \/ eventLock \in {c, NoReq})
  BY <1>0, <1>2 DEF TypeOK
<1>6. req' \in [Reqs -> Request] /\ Knows(c)' /\ \A d \in Reqs \ {c} : Knows(d)'
  <2>1. CASE op \in Registering /\ req' = [req EXCEPT ![c] = x] /\ UNCHANGED eventLock
    <3>1. HoldsOpenEvent(c)
      BY <1>0, <2>1 DEF Knows, Enrolling
    <3>2. /\ x \in Request /\ x.pc \in {"form", "insert"} /\ x.op = op /\ x.r = req[c].r
      BY <2>1, <3>1 DEF HoldsOpenEvent, Request, Idle, Ops
    <3> HIDE DEF x
    <3>3. req' \in [Reqs -> Request] /\ req'[c] = x
      BY <1>0, <2>1, <3>2 DEF TypeOK
    <3>4. HoldsOpenEvent(c)'
      BY <2>1, <3>1, <3>2, <3>3 DEF HoldsOpenEvent, setup
    <3>5. Knows(c)'
      BY <2>1, <3>2, <3>3, <3>4 DEF Knows, Enrolling
    <3>6. \A d \in Reqs \ {c} : Knows(d)'
      BY <1>5, <2>1, OthersKeep DEF setup
    <3> QED BY <3>3, <3>5, <3>6
  <2>2. CASE req' = [req EXCEPT ![c] = Idle]
    <3>1. req' \in [Reqs -> Request] /\ Knows(c)'
      BY <1>0, <2>2, ActorRests
    <3>2. \A d \in Reqs \ {c} : Knows(d)'
      BY <1>5, <2>2, OthersKeep DEF setup
    <3> QED BY <3>1, <3>2
  <2> QED BY <1>2, <2>1, <2>2
<1>7. TypeOK'
  BY <1>0, <1>4, <1>5, <1>6 DEF TypeOK, setup, forms
<1> QED BY <1>6, <1>7 DEF SetupInv

\* The start of a request that reads, or registers.
LEMMA SetupReads ==
    ASSUME SetupInv, NEW c \in Reqs, NEW x \in Request, req' = [req EXCEPT ![c] = x],
           x.pc = "count", x.op \in Registering \cup {"list", "look"}, x.seen = event,
           x.op \in Registering => /\ x.r \in Rows /\ regs[x.r] = "none" /\ Granted(c)
                                   /\ event.visible /\ event.status = "OPEN",
           eventLock' = IF x.op \in Registering THEN c ELSE eventLock,
           UNCHANGED <<setup, regs, forms, caches>>
    PROVE  SetupInv'
<1>0. TypeOK /\ event \in Event
  BY DEF SetupInv, TypeOK
<1>1. req' \in [Reqs -> Request] /\ req'[c] = x
  BY <1>0 DEF TypeOK
<1>2. Enrolling(c)' => HoldsOpenEvent(c)'
  BY <1>1 DEF HoldsOpenEvent, Enrolling, setup
<1>3. Knows(c)'
  BY <1>0, <1>1, <1>2 DEF Knows, setup
<1>4. eventLock' = eventLock \/ eventLock \in {c, NoReq}
  BY DEF Granted
<1>5. \A d \in Reqs \ {c} : Knows(d)'
  BY <1>4, OthersKeep DEF setup
<1>6. TypeOK'
  BY <1>0, <1>1 DEF TypeOK, setup, forms, caches
<1> QED BY <1>3, <1>5, <1>6 DEF SetupInv

LEMMA SetupRead ==
    ASSUME SetupInv, NEW c \in Reqs, Read(c)
    PROVE  SetupInv'
<1>0. TypeOK /\ Knows(c)
  BY DEF SetupInv
<1>1. ASSUME NEW op \in {"list", "look"},
             Start(c, [Idle EXCEPT !.pc = "count", !.op = op, !.seen = event]),
             UNCHANGED <<setup, regs, forms, caches, eventLock>>
      PROVE  SetupInv'
  <2> DEFINE x == [Idle EXCEPT !.pc = "count", !.op = op, !.seen = event]
  <2>1. x \in Request /\ x.pc = "count" /\ x.op = op /\ x.seen = event
    BY <1>0 DEF Idle, Request, Ops, TypeOK
  <2>2. req' = [req EXCEPT ![c] = x]
    BY <1>1 DEF Start
  <2> HIDE DEF x
  <2>3. op \notin Registering
    BY DEF Registering
  <2> QED BY <1>1, <2>1, <2>2, <2>3, SetupReads
<1>2. CASE ListEvents(c)
  BY <1>1, <1>2 DEF ListEvents
<1>3. CASE LookAt(c)
  BY <1>1, <1>3 DEF LookAt
<1>4. CASE CountCached(c)
  <2>1. PICK left \in Nat : Counted(c, left)
    BY <1>0, <1>4 DEF CountCached, TypeOK
  <2>2. spots' \in [left : Nat, fresh : BOOLEAN] \cup {NoEntry} /\ req[c].pc \in {"count", "store"}
        /\ UNCHANGED <<setup, regs, forms>>
    BY <1>0, <1>4 DEF CountCached, TypeOK
  <2> QED BY <2>1, <2>2, SetupCounted
<1>5. CASE CountRows(c)
  <2> DEFINE left == Remaining(req[c].seen.capacity)
             x == [req[c] EXCEPT !.pc = "store", !.left = left]
  <2>1. req[c].seen \in Event /\ req[c].op \in Registering \cup {"list", "look"}
    BY <1>0, <1>5 DEF CountRows, Knows
  <2>2. left \in Nat
    BY <2>1, RemainingIsNat DEF Event
  <2>3. req' = [req EXCEPT ![c] = x] /\ req[c] \in Request
    BY <1>0, <1>5 DEF CountRows, TypeOK
  <2> HIDE DEF left
  <2>4. x \in Request /\ x.pc = "store" /\ x.op = req[c].op /\ x.seen = req[c].seen
        /\ x.r = req[c].r
    BY <2>2, <2>3 DEF Request
  <2> HIDE DEF x
  <2>5. req' \in [Reqs -> Request] /\ req'[c] = x
    BY <1>0, <2>3, <2>4 DEF TypeOK
  <2>6. UNCHANGED <<event, rules, edits, torn, regs, fields, answers, list, spots, eventLock>>
    BY <1>5 DEF CountRows, setup, forms, caches
  <2>7. Enrolling(c)' => HoldsOpenEvent(c)'
    BY <1>0, <1>5, <2>4, <2>5, <2>6 DEF Enrolling, HoldsOpenEvent, Knows, CountRows
  <2>8. Knows(c)'
    BY <2>1, <2>4, <2>5, <2>7 DEF Knows
  <2>9. \A d \in Reqs \ {c} : Knows(d)'
    BY <2>3, <2>6, OthersKeep
  <2>10. TypeOK'
    BY <1>0, <2>5, <2>6 DEF TypeOK
  <2> QED BY <2>8, <2>9, <2>10 DEF SetupInv
<1>6. CASE StoreCount(c)
  <2>1. req[c].left \in Nat
    BY <1>0 DEF TypeOK, Request
  <2>2. spots' \in [left : Nat, fresh : BOOLEAN] \cup {NoEntry}
    BY <1>6, <2>1 DEF StoreCount, SpotsEntry
  <2> QED BY <1>6, <2>1, <2>2, SetupCounted DEF StoreCount
<1> QED BY <1>2, <1>3, <1>4, <1>5, <1>6 DEF Read

LEMMA SetupEnrol ==
    ASSUME SetupInv, NEW c \in Reqs, Enrol(c)
    PROVE  SetupInv'
<1>0. TypeOK /\ Knows(c)
  BY DEF SetupInv
<1>1. ASSUME NEW op \in Registering, NEW r \in Rows, Register(c, op, r)
      PROVE  SetupInv'
  <2> DEFINE x == [Idle EXCEPT !.pc = "count", !.op = op, !.r = r, !.seen = event,
                               !.allowed = Allowed(op)]
  <2>1. Allowed(op) \in BOOLEAN
    <3>1. rules.individual \in BOOLEAN
      BY <1>0 DEF TypeOK, Rules
    <3>2. CASE op = "solo"
      <4>1. Allowed(op) = rules.individual
        BY <3>2, Zenon DEF Allowed
      <4> QED BY <3>1, <4>1
    <3>3. CASE op = "formTeam"
      <4>1. Allowed(op) = (rules.max > 1)
        BY <3>3, Zenon DEF Allowed
      <4>2. (rules.max > 1) \in BOOLEAN
        OBVIOUS
      <4> QED BY <4>1, <4>2
    <3>4. CASE op = "team"
      BY <3>4 DEF Allowed
    <3> QED BY <3>2, <3>3, <3>4 DEF Registering
  <2>2. req' = [req EXCEPT ![c] = x]
    BY <1>1 DEF Register, Start
  <2>3. x \in Request /\ x.pc = "count" /\ x.op = op /\ x.seen = event /\ x.r = r
    BY <1>0, <2>1 DEF Idle, Request, Ops, TypeOK
  <2> HIDE DEF x
  <2> QED BY <1>1, <2>2, <2>3, SetupReads DEF Register, Unclaimed
<1>2. ASSUME NEW ans \in SUBSET Fields, AnswerForm(c, ans)
      PROVE  SetupInv'
  <2> DEFINE x == [req[c] EXCEPT !.pc = "insert", !.ans = ans]
  <2>1. req' = [req EXCEPT ![c] = x] /\ req[c] \in Request /\ req[c].pc = "form"
    BY <1>0, <1>2 DEF AnswerForm, TypeOK
  <2>2. x \in Request /\ x.pc = "insert" /\ x.op = req[c].op /\ x.r = req[c].r
    BY <2>1 DEF Request
  <2> HIDE DEF x
  <2>3. req' \in [Reqs -> Request] /\ req'[c] = x
    BY <1>0, <2>1, <2>2 DEF TypeOK
  <2>4. UNCHANGED <<event, rules, edits, torn, regs, fields, answers, list, spots, eventLock>>
    BY <1>2 DEF AnswerForm, setup, forms, caches
  <2>5. Knows(c)'
    BY <1>0, <2>1, <2>2, <2>3, <2>4 DEF Knows, Enrolling, HoldsOpenEvent
  <2>6. \A d \in Reqs \ {c} : Knows(d)'
    BY <2>1, <2>4, OthersKeep
  <2>7. TypeOK'
    BY <1>0, <2>3, <2>4 DEF TypeOK
  <2> QED BY <2>5, <2>6, <2>7 DEF SetupInv
<1>3. CASE RefuseForm(c) \/ FailInsert(c)
  <2>1. /\ UNCHANGED <<event, rules, edits, torn, regs, fields, answers, list, spots>>
        /\ req' = [req EXCEPT ![c] = Idle]
        /\ eventLock' = IF eventLock = c THEN NoReq ELSE eventLock
    BY <1>3 DEF RefuseForm, FailInsert, Finish, setup, forms, caches
  <2>2. req' \in [Reqs -> Request] /\ Knows(c)'
    BY <1>0, <2>1, ActorRests
  <2>3. \A d \in Reqs \ {c} : Knows(d)'
    BY <2>1, OthersKeep
  <2>4. TypeOK'
    BY <1>0, <2>1, <2>2 DEF TypeOK
  <2> QED BY <2>2, <2>3, <2>4 DEF SetupInv
<1>4. CASE Insert(c)
  <2> DEFINE r == req[c].r
             x == IF req[c].op = "team" THEN Idle ELSE Dropping(req[c].op)
  <2>1. /\ UNCHANGED <<event, rules, edits, torn, fields, list, spots>>
        /\ req[c].pc = "insert" /\ req' = [req EXCEPT ![c] = x]
        /\ regs' = [regs EXCEPT ![r] = "PENDING"]
        /\ answers' = answers \cup {r} \X req[c].ans
        /\ eventLock' = NoReq
    BY <1>4 DEF Insert, setup, caches
  <2>2. req[c].op \in Registering /\ HoldsOpenEvent(c) /\ req[c].ans \in SUBSET Fields
    BY <1>0, <2>1 DEF Knows, Enrolling, TypeOK, Request
  <2>3. x \in {Idle} \cup {Dropping(op) : op \in Ops}
    BY <2>2 DEF Ops
  <2> HIDE DEF x
  <2>4. req' \in [Reqs -> Request] /\ Knows(c)'
    BY <1>0, <2>1, <2>3, ActorRests
  <2>5. r \in Rows /\ eventLock = c
    BY <2>2 DEF HoldsOpenEvent
  <2>6. \A d \in Reqs \ {c} : Knows(d)'
    BY <2>1, <2>5, OthersKeep
  <2>7. answers' \subseteq Rows \X Fields
    BY <1>0, <2>1, <2>2, <2>5 DEF TypeOK
  <2>8. regs' \in [Rows -> RegStates]
    BY <1>0, <2>1 DEF TypeOK, RegStates
  <2>9. TypeOK'
    BY <1>0, <2>1, <2>4, <2>7, <2>8 DEF TypeOK
  <2> QED BY <2>4, <2>6, <2>9 DEF SetupInv
<1>5. ASSUME NEW r \in Rows, Confirm(c, r)
      PROVE  SetupInv'
  <2>1. /\ UNCHANGED <<event, rules, edits, torn, fields, answers, list, spots, eventLock>>
        /\ req' = [req EXCEPT ![c] = Dropping("confirm")]
        /\ regs[r] = "PENDING" /\ regs' = [regs EXCEPT ![r] = "CONFIRMED"]
    BY <1>5 DEF Confirm, Start, setup, caches, forms
  <2>2. req' \in [Reqs -> Request] /\ Knows(c)'
    BY <1>0, <2>1, ActorRests DEF Ops
  <2>3. \A s \in Rows : regs[s] = "none" => regs'[s] = "none"
    BY <1>0, <2>1 DEF TypeOK
  <2>4. \A d \in Reqs \ {c} : Knows(d)'
    BY <2>1, <2>3, OthersKeep
  <2>5. TypeOK'
    BY <1>0, <2>1, <2>2 DEF TypeOK, RegStates
  <2> QED BY <2>2, <2>4, <2>5 DEF SetupInv
<1> QED BY <1>1, <1>2, <1>3, <1>4, <1>5 DEF Enrol

\* Steps of no request, and the end of one.
LEMMA SetupRest ==
    ASSUME SetupInv,
           \/ \E c \in Reqs : AfterCommit(c)
           \/ \E f \in Fields, s \in FieldStates : EditField(f, s)
           \/ \E r \in Rows : ByHand(r)
           \/ EditContent \/ Expire \/ Restart \/ UNCHANGED vars
    PROVE  SetupInv'
<1>0. TypeOK /\ \A c \in Reqs : Knows(c)
  BY DEF SetupInv
<1>1. ASSUME NEW c \in Reqs, AfterCommit(c)
      PROVE  SetupInv'
  <2>1. /\ UNCHANGED <<event, rules, edits, torn, regs, fields, answers>>
        /\ req' = [req EXCEPT ![c] = Idle]
        /\ eventLock' = IF eventLock = c THEN NoReq ELSE eventLock
    BY <1>1 DEF AfterCommit, DropCaches, FailAfterCommit, Finish, setup, forms
  <2>5. /\ list' \in [shown : Statuses \cup {"unlisted"}, fresh : BOOLEAN] \cup {NoEntry}
        /\ spots' \in [left : Nat, fresh : BOOLEAN] \cup {NoEntry}
    <3>1. CASE DropCaches(c)
      BY <1>0, <3>1 DEF DropCaches, TypeOK
    <3>2. CASE FailAfterCommit(c)
      BY <1>0, <3>2 DEF FailAfterCommit, TypeOK
    <3> QED BY <1>1, <3>1, <3>2 DEF AfterCommit
  <2>2. req' \in [Reqs -> Request] /\ Knows(c)'
    BY <1>0, <2>1, ActorRests
  <2>3. \A d \in Reqs \ {c} : Knows(d)'
    BY <2>1, OthersKeep
  <2>4. TypeOK'
    BY <1>0, <2>1, <2>2, <2>5 DEF TypeOK
  <2> QED BY <2>2, <2>3, <2>4 DEF SetupInv
<1>2. ASSUME req' = req, event' = event, eventLock' = eventLock,
             \A r \in Rows : regs[r] = "none" => regs'[r] = "none"
      PROVE  \A c \in Reqs : Knows(c)'
  <2> SUFFICES ASSUME NEW c \in Reqs
               PROVE  Knows(c)'
    OBVIOUS
  <2>1. Enrolling(c) => HoldsOpenEvent(c)'
    BY <1>0, <1>2 DEF Knows, HoldsOpenEvent
  <2> QED BY <1>2, <2>1, OthersKnow
<1>3. ASSUME NEW f \in Fields, NEW s \in FieldStates, EditField(f, s)
      PROVE  SetupInv'
  <2>1. /\ UNCHANGED <<event, rules, torn, regs, answers, list, spots, eventLock, req>>
        /\ edits < MaxEdits /\ edits' = edits + 1 /\ fields' = [fields EXCEPT ![f] = s]
    BY <1>3 DEF EditField, Edit, caches
  <2>2. TypeOK'
    BY <1>0, <2>1, SetupAssumption DEF TypeOK
  <2> QED BY <1>2, <2>1, <2>2 DEF SetupInv
<1>4. ASSUME NEW r \in Rows, Revoke(r)
      PROVE  SetupInv'
  <2>1. /\ UNCHANGED <<event, rules, edits, torn, fields, answers, list, eventLock, req>>
        /\ regs[r] = "CONFIRMED" /\ regs' = [regs EXCEPT ![r] = "REVOKED"]
        /\ spots' = IF spots = NoEntry THEN NoEntry ELSE [spots EXCEPT !.fresh = FALSE]
    BY <1>4 DEF Revoke, SpotsOutdated, setup, forms
  <2>2. spots' \in [left : Nat, fresh : BOOLEAN] \cup {NoEntry}
    BY <1>0, <2>1 DEF TypeOK
  <2>3. \A s \in Rows : regs[s] = "none" => regs'[s] = "none"
    BY <1>0, <2>1 DEF TypeOK
  <2>4. TypeOK'
    BY <1>0, <2>1, <2>2 DEF TypeOK, RegStates
  <2> QED BY <1>2, <2>1, <2>3, <2>4 DEF SetupInv
<1>7. ASSUME NEW r \in Rows, ConfirmOffline(r) \/ RegisterByHand(r)
      PROVE  SetupInv'
  <2>1. /\ UNCHANGED <<event, rules, edits, torn, fields, answers, list, eventLock, req>>
        /\ eventLock = NoReq
        /\ \E state \in {"PENDING", "CONFIRMED"} : regs' = [regs EXCEPT ![r] = state]
        /\ \/ spots' = spots
           \/ spots' = IF spots = NoEntry THEN NoEntry ELSE [spots EXCEPT !.fresh = FALSE]
    BY <1>7 DEF ConfirmOffline, RegisterByHand, SpotsOutdated, setup, forms, caches
  <2>2. spots' \in [left : Nat, fresh : BOOLEAN] \cup {NoEntry}
    BY <1>0, <2>1 DEF TypeOK
  <2>3. TypeOK'
    BY <1>0, <2>1, <2>2 DEF TypeOK, RegStates
  <2>4. ASSUME NEW c \in Reqs
        PROVE  Knows(c)'
    <3>1. ~ Enrolling(c)
      BY <1>0, <2>1, SetupAssumption DEF Knows, HoldsOpenEvent
    <3> QED BY <2>1, <3>1, OthersKnow
  <2> QED BY <2>3, <2>4 DEF SetupInv
<1>5. CASE EditContent \/ Expire \/ UNCHANGED vars
  <2>1. /\ UNCHANGED <<event, rules, edits, torn, regs, fields, answers, eventLock, req>>
        /\ list' \in {list, NoEntry} /\ spots' \in {spots, NoEntry}
    BY <1>5 DEF EditContent, Expire, vars, setup, forms, caches
  <2>2. TypeOK'
    BY <1>0, <2>1 DEF TypeOK
  <2> QED BY <1>2, <2>1, <2>2 DEF SetupInv
<1>6. CASE Restart
  <2>1. /\ UNCHANGED <<event, rules, edits, torn, regs, fields, answers>>
        /\ req' = [c \in Reqs |-> Idle] /\ eventLock' = NoReq
        /\ list' = NoEntry /\ spots' = NoEntry
    BY <1>6 DEF Restart, setup, forms
  <2>2. \A c \in Reqs : Knows(c)'
    BY <2>1 DEF Knows, Enrolling, Idle
  <2>3. TypeOK'
    BY <1>0, <2>1, IdleRequest DEF TypeOK
  <2> QED BY <2>2, <2>3 DEF SetupInv
<1> QED BY <1>1, <1>3, <1>4, <1>5, <1>6, <1>7 DEF ByHand

LEMMA SetupInit == Init => SetupInv
<1> SUFFICES ASSUME Init
             PROVE  SetupInv
  OBVIOUS
<1>1. \A c \in Reqs : Knows(c)
  BY DEF Init, Knows, Enrolling, Idle
<1>2. rules \in Rules
  BY CreatedAligned DEF Init
<1>3. TypeOK
  BY <1>2, IdleRequest, SetupAssumption DEF Init, TypeOK, RegStates, FieldStates
<1> QED BY <1>1, <1>3 DEF SetupInv

LEMMA SetupStep == SetupInv /\ [Next]_vars => SetupInv'
<1> SUFFICES ASSUME SetupInv, [Next]_vars
             PROVE  SetupInv'
  OBVIOUS
<1>1. ASSUME NEW c \in Reqs, Administrate(c)
      PROVE  SetupInv'
  BY <1>1, SetupBeginEdit, SetupWriteEvent, SetupRules, SetupDelete DEF Administrate
<1> QED BY <1>1, SetupRead, SetupEnrol, SetupRest DEF Next

-----------------------------------------------------------------------------
(* The theorems.                                                           *)

\* What requests have read and hold, in every state.
THEOREM SetupInvariant == Spec => []SetupInv
<1> QED BY SetupInit, SetupStep, PTL DEF Spec

\* Rows, caches and requests have their types whatever is edited, by however
\* many administrators at once.
THEOREM SetupTypes == Spec => []TypeOK
<1>1. SetupInv => TypeOK
  BY DEF SetupInv
<1> QED BY <1>1, SetupInvariant, PTL

LEMMA RequestSteps ==
    ASSUME SetupInv, [Next]_vars
    PROVE  \/ \E c \in Reqs : Administrate(c) \/ Read(c) \/ Enrol(c) \/ AfterCommit(c)
           \/ UNCHANGED <<event, rules, torn>> /\ (req' = req \/ req' = [c \in Reqs |-> Idle])
BY DEF Next, vars, setup, EditField, ByHand, Revoke, ConfirmOffline, RegisterByHand,
       EditContent, Expire, Restart

\* Reading, registering and dropping the caches edit nothing.
LEMMA NoEditing ==
    ASSUME SetupInv, NEW c \in Reqs, Read(c) \/ Enrol(c) \/ AfterCommit(c)
    PROVE  /\ UNCHANGED <<event, rules, torn>>
           /\ req'[c].pc # "write" /\ \A d \in Reqs \ {c} : req'[d] = req[d]
<1>0. req \in [Reqs -> Request]
  BY DEF SetupInv, TypeOK
<1>1. CASE Read(c)
  <2>1. ASSUME NEW left, Counted(c, left)
        PROVE  req'[c].pc # "write" /\ \A d \in Reqs \ {c} : req'[d] = req[d]
    <3> DEFINE x == [Idle EXCEPT !.pc = IF req[c].op = "team" THEN "insert" ELSE "form",
                                 !.op = req[c].op, !.r = req[c].r]
    <3>1. req' = [req EXCEPT ![c] = x] \/ req' = [req EXCEPT ![c] = Idle]
      BY <2>1 DEF Counted, Finish
    <3>2. x.pc # "write" /\ Idle.pc # "write"
      BY DEF Idle
    <3> HIDE DEF x
    <3> QED BY <1>0, <3>1, <3>2
  <2>2. CASE ListEvents(c) \/ LookAt(c)
    BY <1>0, <2>2 DEF ListEvents, LookAt, Start, Idle, setup
  <2>3. CASE CountRows(c)
    BY <1>0, <2>3 DEF CountRows, setup, Request
  <2>4. CASE CountCached(c)
    BY <2>1, <2>4 DEF CountCached, setup
  <2>5. CASE StoreCount(c)
    BY <2>1, <2>5 DEF StoreCount, setup
  <2> QED BY <1>1, <2>2, <2>3, <2>4, <2>5 DEF Read
<1>2. CASE Enrol(c)
  <2>1. ASSUME NEW op \in Registering, NEW r \in Rows, Register(c, op, r)
        PROVE  /\ UNCHANGED <<event, rules, torn>>
               /\ req'[c].pc # "write" /\ \A d \in Reqs \ {c} : req'[d] = req[d]
    BY <1>0, <2>1 DEF Register, Start, Idle, setup
  <2>2. ASSUME NEW ans \in SUBSET Fields, AnswerForm(c, ans)
        PROVE  /\ UNCHANGED <<event, rules, torn>>
               /\ req'[c].pc # "write" /\ \A d \in Reqs \ {c} : req'[d] = req[d]
    BY <1>0, <2>2 DEF AnswerForm, setup, Request
  <2>3. CASE RefuseForm(c) \/ FailInsert(c)
    BY <1>0, <2>3 DEF RefuseForm, FailInsert, Finish, Idle, setup
  <2>4. CASE Insert(c)
    BY <1>0, <2>4 DEF Insert, Dropping, Idle, setup
  <2>5. ASSUME NEW r \in Rows, Confirm(c, r)
        PROVE  /\ UNCHANGED <<event, rules, torn>>
               /\ req'[c].pc # "write" /\ \A d \in Reqs \ {c} : req'[d] = req[d]
    BY <1>0, <2>5 DEF Confirm, Start, Dropping, Idle, setup
  <2> QED BY <1>2, <2>1, <2>2, <2>3, <2>4, <2>5 DEF Enrol
<1>3. CASE AfterCommit(c)
  BY <1>0, <1>3 DEF AfterCommit, DropCaches, FailAfterCommit, Finish, Idle, setup
<1> QED BY <1>1, <1>2, <1>3

\* What an edit is about to write is as consistent as the row it has read,
\* unless an overlapping edit has been lost already.
Intends(c) ==
    req[c].pc = "write" =>
      /\ req[c].op \in EventEdits => "event" \in torn \/ Consistent(req[c].new)
      /\ req[c].op = "rules" => "rules" \in torn \/ Aligned(req[c].new)

EditInv == HiddenIsClosed /\ RulesAgree /\ \A c \in Reqs : Intends(c)

LEMMA EditInit == Init => EditInv
<1> SUFFICES ASSUME Init
             PROVE  EditInv
  OBVIOUS
<1>1. RulesAgree
  BY CreatedAligned DEF Init, RulesAgree
<1>2. HiddenIsClosed
  BY DEF Init, HiddenIsClosed, Consistent
<1> QED BY <1>1, <1>2 DEF Init, EditInv, Intends, Idle

LEMMA EditStep == EditInv /\ SetupInv /\ [Next]_vars => EditInv'
<1> SUFFICES ASSUME EditInv, SetupInv, [Next]_vars
             PROVE  EditInv'
  OBVIOUS
<1>0. TypeOK /\ (\A c \in Reqs : Knows(c)) /\ req \in [Reqs -> Request]
  BY DEF SetupInv, TypeOK
<1>1. ASSUME UNCHANGED <<event, rules, torn>>,
             \A c \in Reqs : req'[c] = req[c] \/ Intends(c)'
      PROVE  EditInv'
  BY <1>1 DEF EditInv, HiddenIsClosed, RulesAgree, Intends
<1>2. ASSUME UNCHANGED <<event, rules, torn>>, NEW c \in Reqs, Intends(c)',
             \A d \in Reqs \ {c} : req'[d] = req[d]
      PROVE  EditInv'
  BY <1>1, <1>2
<1>3. ASSUME NEW c \in Reqs, NEW op \in EventEdits, NEW n \in Capacities, BeginEdit(c, op, n)
      PROVE  EditInv'
  <2> DEFINE new == Edited(op, event, n)
  <2>1. "event" \in torn \/ Consistent(new)
    BY <1>0, <1>3, EditedConsistent DEF BeginEdit, TypeOK, EditInv, HiddenIsClosed
  <2> HIDE DEF new
  <2>2. /\ req' = [req EXCEPT ![c] = [Idle EXCEPT !.pc = "write", !.op = op,
                                                  !.seen = event, !.new = new]]
        /\ UNCHANGED <<event, rules, torn>>
    BY <1>3 DEF BeginEdit, Start, new
  <2>3. req'[c].op = op /\ req'[c].new = new /\ \A d \in Reqs \ {c} : req'[d] = req[d]
    BY <1>0, <2>2 DEF Idle
  <2>4. Intends(c)'
    BY <2>1, <2>2, <2>3 DEF Intends, EventEdits
  <2> QED BY <1>2, <2>2, <2>3, <2>4
<1>4. ASSUME NEW c \in Reqs, NEW b \in RuleBodies, BeginRules(c, b)
      PROVE  EditInv'
  <2> DEFINE new == Patched(rules, b)
  <2>1. "rules" \in torn \/ Aligned(new)
    BY <1>0, PatchedAligned DEF TypeOK, EditInv, RulesAgree
  <2> HIDE DEF new
  <2>2. /\ req' = [req EXCEPT ![c] = [Idle EXCEPT !.pc = "write", !.op = "rules",
                                                  !.seen = rules, !.new = new]]
        /\ UNCHANGED <<event, rules, torn>>
    BY <1>4 DEF BeginRules, Start, new
  <2>3. req'[c].op = "rules" /\ req'[c].new = new /\ \A d \in Reqs \ {c} : req'[d] = req[d]
    BY <1>0, <2>2 DEF Idle
  <2>4. Intends(c)'
    BY <2>1, <2>2, <2>3 DEF Intends, EventEdits
  <2> QED BY <1>2, <2>2, <2>3, <2>4
<1>5. ASSUME NEW c \in Reqs, NEW op \in Ops, req' = [req EXCEPT ![c] = Dropping(op)]
      PROVE  req'[c].pc = "drop" /\ \A d \in Reqs \ {c} : req'[d] = req[d]
  BY <1>0, <1>5 DEF Dropping, Idle
<1>6. ASSUME NEW c \in Reqs, WriteEvent(c)
      PROVE  EditInv'
  <2>1. /\ req[c].pc = "write" /\ req[c].op \in EventEdits
        /\ event' = Merged(req[c].seen, req[c].new, event) /\ rules' = rules
        /\ torn' = IF req[c].seen.visible = event.visible /\ req[c].seen.status = event.status
                   THEN torn ELSE torn \cup {"event"}
        /\ req' = [req EXCEPT ![c] = Dropping(req[c].op)]
    BY <1>6 DEF WriteEvent
  <2>2. req[c].seen \in Event /\ req[c].new \in Event /\ event \in Event
    BY <1>0, <2>1 DEF Knows, EventEdits, TypeOK
  <2>3. "event" \notin torn' => Consistent(event')
    <3> SUFFICES ASSUME "event" \notin torn'
                 PROVE  Consistent(event')
      OBVIOUS
    <3>1. /\ req[c].seen.visible = event.visible /\ req[c].seen.status = event.status
          /\ Consistent(req[c].new)
      BY <2>1 DEF EditInv, Intends
    <3>2. event'.visible = req[c].new.visible /\ event'.status = req[c].new.status
      BY <2>1, <2>2, <3>1, MergedEvent
    <3> QED BY <3>1, <3>2 DEF Consistent
  <2>4. torn \subseteq torn' /\ ("rules" \in torn' => "rules" \in torn)
    BY <2>1
  <2>5. req'[c].pc = "drop" /\ \A d \in Reqs \ {c} : req'[d] = req[d]
    BY <1>5, <2>1 DEF Ops
  <2>6. RulesAgree' /\ HiddenIsClosed'
    BY <2>1, <2>3, <2>4 DEF EditInv, RulesAgree, HiddenIsClosed
  <2>7. \A d \in Reqs : Intends(d)'
    BY <2>4, <2>5 DEF EditInv, Intends
  <2> QED BY <2>6, <2>7 DEF EditInv
<1>7. ASSUME NEW c \in Reqs, WriteRules(c)
      PROVE  EditInv'
  <2>1. /\ req[c].pc = "write" /\ req[c].op = "rules"
        /\ rules' = Merged(req[c].seen, req[c].new, rules) /\ event' = event
        /\ torn' = IF req[c].seen = rules THEN torn ELSE torn \cup {"rules"}
        /\ req' = [req EXCEPT ![c] = Dropping("rules")]
    BY <1>7 DEF WriteRules
  <2>2. req[c].seen \in Rules /\ req[c].new \in Rules /\ rules \in Rules
    BY <1>0, <2>1 DEF Knows, EventEdits, TypeOK
  <2>3. "rules" \notin torn' => Aligned(rules')
    BY <2>1, <2>2, MergedRules DEF EditInv, Intends
  <2>4. torn \subseteq torn' /\ ("event" \in torn' => "event" \in torn)
    BY <2>1
  <2>5. req'[c].pc = "drop" /\ \A d \in Reqs \ {c} : req'[d] = req[d]
    BY <1>5, <2>1 DEF Ops
  <2>6. RulesAgree' /\ HiddenIsClosed'
    BY <2>1, <2>3, <2>4 DEF EditInv, RulesAgree, HiddenIsClosed
  <2>7. \A d \in Reqs : Intends(d)'
    BY <2>4, <2>5 DEF EditInv, Intends
  <2> QED BY <2>6, <2>7 DEF EditInv
<1>8. ASSUME NEW c \in Reqs, NEW r \in Rows, Delete(c, r)
      PROVE  EditInv'
  <2>1. UNCHANGED <<event, rules, torn>> /\ req' = [req EXCEPT ![c] = Dropping("delete")]
    BY <1>8 DEF Delete, Start, setup
  <2>2. req'[c].pc = "drop" /\ \A d \in Reqs \ {c} : req'[d] = req[d]
    BY <1>5, <2>1 DEF Ops
  <2> QED BY <1>2, <2>1, <2>2 DEF Intends
<1>9. ASSUME NEW c \in Reqs, Read(c) \/ Enrol(c) \/ AfterCommit(c)
      PROVE  EditInv'
  BY <1>2, <1>9, NoEditing DEF Intends
<1>10. CASE UNCHANGED <<event, rules, torn>> /\ (req' = req \/ req' = [c \in Reqs |-> Idle])
  BY <1>1, <1>10 DEF Intends, Idle
<1> QED BY <1>3, <1>4, <1>6, <1>7, <1>8, <1>9, <1>10, RequestSteps DEF Administrate

THEOREM EditInvariant == Spec => []EditInv
<1> QED BY EditInit, EditStep, SetupInvariant, PTL DEF Spec

\* An unpublished event is closed as long as no two edits of its state
\* overlapped (event_state.py), whatever order they come in.
THEOREM HiddenEventsAreClosed == Spec => []HiddenIsClosed
<1>1. EditInv => HiddenIsClosed
  BY DEF EditInv
<1> QED BY <1>1, EditInvariant, PTL

\* The old and the new columns of the rules agree, for every body and every
\* limit on the sizes, as long as no two patches overlapped (roster_service.py).
THEOREM RulesStayAligned == Spec => []RulesAgree
<1>1. EditInv => RulesAgree
  BY DEF EditInv
<1> QED BY <1>1, EditInvariant, PTL

-----------------------------------------------------------------------------
(* Registrations and their answers.                                        *)

LEMMA RowSteps ==
    ASSUME [Next]_vars
    PROVE  \/ UNCHANGED <<regs, fields, answers>>
           \/ \E c \in Reqs : Insert(c)
           \/ \E c \in Reqs, r \in Rows : Delete(c, r) \/ Confirm(c, r)
           \/ \E r \in Rows : ByHand(r)
           \/ \E f \in Fields, s \in FieldStates : EditField(f, s)
<1>1. ASSUME NEW c \in Reqs, Read(c) \/ AfterCommit(c)
      PROVE  UNCHANGED <<regs, fields, answers>>
  BY <1>1 DEF Read, ListEvents, LookAt, CountCached, CountRows, StoreCount, AfterCommit,
       DropCaches, FailAfterCommit, forms
<1>2. ASSUME NEW c \in Reqs, Administrate(c), ~ \E r \in Rows : Delete(c, r)
      PROVE  UNCHANGED <<regs, fields, answers>>
  BY <1>2 DEF Administrate, BeginEdit, WriteEvent, BeginRules, WriteRules, forms
<1>3. ASSUME NEW c \in Reqs, Enrol(c), ~ Insert(c), ~ \E r \in Rows : Confirm(c, r)
      PROVE  UNCHANGED <<regs, fields, answers>>
  BY <1>3 DEF Enrol, Register, AnswerForm, RefuseForm, FailInsert, forms
<1>4. EditContent \/ Expire \/ Restart \/ UNCHANGED vars => UNCHANGED <<regs, fields, answers>>
  BY DEF EditContent, Expire, Restart, vars, forms
<1> QED BY <1>1, <1>2, <1>3, <1>4 DEF Next

\* What an administrator enters has no unclaimed row but its own.
LEMMA HandKeeps ==
    ASSUME NEW s \in Rows, ByHand(s)
    PROVE  /\ UNCHANGED <<fields, answers>>
           /\ \E state \in {"REVOKED", "CONFIRMED", "PENDING"} : regs' = [regs EXCEPT ![s] = state]
           /\ regs[s] = "none" => \A d \in Reqs : req[d].r # s
           /\ regs[s] \in {"none", "PENDING", "CONFIRMED"}
BY DEF ByHand, Revoke, ConfirmOffline, RegisterByHand, Unclaimed, forms

LEMMA OpenStep ==
    ASSUME SetupInv, [Next]_vars, NEW c \in Reqs, NEW r \in Rows,
           req[c].op \in Registering, req[c].r = r, regs[r] = "none", regs'[r] # "none"
    PROVE  event.visible /\ event.status = "OPEN"
<1>0. regs \in [Rows -> RegStates]
  BY DEF SetupInv, TypeOK
<1>1. ASSUME NEW d \in Reqs, Insert(d)
      PROVE  event.visible /\ event.status = "OPEN"
  BY <1>1 DEF Insert, SetupInv, Knows, Enrolling, HoldsOpenEvent
<1>2. ASSUME NEW d \in Reqs, NEW s \in Rows, Delete(d, s) \/ Confirm(d, s)
      PROVE  FALSE
  BY <1>0, <1>2 DEF Delete, Confirm
<1>3. ASSUME NEW s \in Rows, ByHand(s)
      PROVE  FALSE
  BY <1>0, <1>3, HandKeeps
<1>4. ASSUME NEW f \in Fields, NEW s \in FieldStates, EditField(f, s)
      PROVE  FALSE
  BY <1>4 DEF EditField
<1> QED BY <1>1, <1>2, <1>3, <1>4, RowSteps

\* No participant's request registers at a hidden or closed event, however
\* many requests register, publish, close and open it (create_registration,
\* create_team).  What administrators enter is outside: they do not look.
THEOREM RegisteredAtOpenEvent == Spec => RegisteredWhileOpen
<1>1. SetupInv /\ [Next]_vars
        => [\A c \in Reqs : \A r \in Rows :
              /\ req[c].op \in Registering /\ req[c].r = r
              /\ regs[r] = "none" /\ regs'[r] # "none"
              => event.visible /\ event.status = "OPEN"]_vars
  BY OpenStep
<1> QED BY <1>1, SetupInvariant, PTL DEF Spec, RegisteredWhileOpen

LEMMA AnswersStep == AnswersHaveTheirField /\ SetupInv /\ [Next]_vars => AnswersHaveTheirField'
<1> SUFFICES ASSUME AnswersHaveTheirField, SetupInv, [Next]_vars
             PROVE  AnswersHaveTheirField'
  OBVIOUS
<1> SUFFICES ASSUME NEW r \in Rows, NEW f \in Fields, <<r, f>> \in answers'
             PROVE  regs'[r] \notin {"none", "deleted"} /\ fields'[f] # "absent"
  <2>1. answers' \subseteq Rows \X Fields
    <3>1. SetupInv'
      BY SetupStep
    <3> QED BY <3>1 DEF SetupInv, TypeOK
  <2>2. ASSUME NEW a \in answers',
               \A r \in Rows, f \in Fields : <<r, f>> \in answers' =>
                   regs'[r] \notin {"none", "deleted"} /\ fields'[f] # "absent"
        PROVE  regs'[a[1]] \notin {"none", "deleted"} /\ fields'[a[2]] # "absent"
    <3>1. PICK r \in Rows, f \in Fields : a = <<r, f>>
      BY <2>1
    <3> QED BY <2>2, <3>1
  <2> QED BY <2>2 DEF AnswersHaveTheirField
<1>0. TypeOK
  BY DEF SetupInv
<1>1. <<r, f>> \in answers => regs[r] \notin {"none", "deleted"} /\ fields[f] # "absent"
  BY DEF AnswersHaveTheirField
<1>2. CASE UNCHANGED <<regs, fields, answers>>
  BY <1>1, <1>2
<1>3. ASSUME NEW c \in Reqs, Insert(c)
      PROVE  regs'[r] \notin {"none", "deleted"} /\ fields'[f] # "absent"
  <2>1. /\ regs' = [regs EXCEPT ![req[c].r] = "PENDING"] /\ fields' = fields
        /\ \A g \in req[c].ans : fields[g] # "absent"
        /\ answers' = answers \cup {req[c].r} \X req[c].ans
    BY <1>3 DEF Insert
  <2>2. CASE <<r, f>> \in answers
    BY <1>0, <1>1, <2>1, <2>2 DEF TypeOK
  <2>3. CASE r = req[c].r /\ f \in req[c].ans
    BY <1>0, <2>1, <2>3 DEF TypeOK
  <2> QED BY <2>1, <2>2, <2>3
<1>4. ASSUME NEW c \in Reqs, NEW s \in Rows, Delete(c, s)
      PROVE  regs'[r] \notin {"none", "deleted"} /\ fields'[f] # "absent"
  <2>1. /\ regs' = [regs EXCEPT ![s] = "deleted"] /\ fields' = fields
        /\ answers' = {a \in answers : a[1] # s}
    BY <1>4 DEF Delete
  <2>2. <<r, f>> \in answers /\ r # s
    BY <2>1
  <2> QED BY <1>0, <1>1, <2>1, <2>2 DEF TypeOK
<1>5. ASSUME NEW c \in Reqs, NEW s \in Rows, Confirm(c, s)
      PROVE  regs'[r] \notin {"none", "deleted"} /\ fields'[f] # "absent"
  BY <1>0, <1>1, <1>5 DEF Confirm, TypeOK, forms
<1>6. ASSUME NEW s \in Rows, ByHand(s)
      PROVE  regs'[r] \notin {"none", "deleted"} /\ fields'[f] # "absent"
  BY <1>0, <1>1, <1>6, HandKeeps DEF TypeOK
<1>7. ASSUME NEW g \in Fields, NEW s \in FieldStates, EditField(g, s)
      PROVE  regs'[r] \notin {"none", "deleted"} /\ fields'[f] # "absent"
  BY <1>0, <1>1, <1>7 DEF EditField, Unanswered, TypeOK
<1> QED BY <1>2, <1>3, <1>4, <1>5, <1>6, <1>7, RowSteps

\* An answer outlives neither its registration nor its field, though fields
\* are edited between the validation of a form and its insert.
THEOREM AnswersKeepTheirField == Spec => []AnswersHaveTheirField
<1>1. Init => AnswersHaveTheirField
  BY DEF Init, AnswersHaveTheirField
<1> QED BY <1>1, AnswersStep, SetupInvariant, PTL DEF Spec

-----------------------------------------------------------------------------
(* The caches.                                                             *)

ListTold ==
    list # NoEntry /\ list.fresh =>
      \/ list.shown = Shown(event)
      \/ \E c \in Reqs : req[c].pc = "drop" /\ DropsList(req[c].op)

SpotsTold ==
    spots # NoEntry /\ spots.fresh =>
      \/ spots.left = Remaining(event.capacity)
      \/ \E c \in Reqs : req[c].pc = "drop" /\ DropsSpots(req[c].op)

\* Only the end of a drop, or of the process, ends the wait for one.
LEMMA DropsStay ==
    ASSUME SetupInv, [Next]_vars, NEW c \in Reqs, req[c].pc = "drop", ~ AfterCommit(c), ~ Restart
    PROVE  req'[c] = req[c]
<1>0. req \in [Reqs -> Request]
  BY DEF SetupInv, TypeOK
<1>1. ASSUME NEW d \in Reqs, Administrate(d)
      PROVE  req'[c] = req[c]
  <2>1. d # c
    BY <1>1 DEF Administrate, BeginEdit, WriteEvent, BeginRules, WriteRules, Delete, Start
  <2> QED BY <1>0, <1>1, <2>1
      DEF Administrate, BeginEdit, WriteEvent, BeginRules, WriteRules, Delete, Start
<1>2. ASSUME NEW d \in Reqs, Read(d) \/ Enrol(d) \/ AfterCommit(d)
      PROVE  req'[c] = req[c]
  <2>1. CASE d = c
    BY <1>2, <2>1 DEF Read, ListEvents, LookAt, CountCached, CountRows, StoreCount, Start,
         Enrol, Register, AnswerForm, RefuseForm, Insert, FailInsert, Confirm
  <2>2. CASE d # c
    BY <1>2, <2>2, NoEditing
  <2> QED BY <2>1, <2>2
<1>3. CASE \/ \E f \in Fields, s \in FieldStates : EditField(f, s)
           \/ \E r \in Rows : ByHand(r)
           \/ EditContent \/ Expire \/ UNCHANGED vars
  BY <1>3 DEF EditField, ByHand, Revoke, ConfirmOffline, RegisterByHand, EditContent, Expire, vars
<1> QED BY <1>1, <1>2, <1>3 DEF Next

\* The steps that change what the caches answer for, or the caches.
LEMMA CacheSteps ==
    ASSUME [Next]_vars
    PROVE  \/ UNCHANGED <<event, regs>> /\ list' \in {list, NoEntry} /\ spots' \in {spots, NoEntry}
           \/ \E c \in Reqs : \/ WriteEvent(c) \/ AfterCommit(c) \/ Insert(c)
                              \/ CountCached(c) \/ StoreCount(c)
           \/ \E c \in Reqs, r \in Rows : Delete(c, r) \/ Confirm(c, r)
           \/ \E r \in Rows : ByHand(r)
           \/ Restart
<1>1. ASSUME NEW c \in Reqs, Administrate(c), ~ WriteEvent(c), ~ \E r \in Rows : Delete(c, r)
      PROVE  UNCHANGED <<event, regs, list, spots>>
  BY <1>1 DEF Administrate, BeginEdit, BeginRules, WriteRules, caches
<1>2. ASSUME NEW c \in Reqs, Read(c), ~ CountCached(c), ~ StoreCount(c)
      PROVE  UNCHANGED <<event, regs, list, spots>>
  BY <1>2 DEF Read, ListEvents, LookAt, CountRows, setup, caches
<1>3. ASSUME NEW c \in Reqs, Enrol(c), ~ Insert(c), ~ \E r \in Rows : Confirm(c, r)
      PROVE  UNCHANGED <<event, regs, list, spots>>
  BY <1>3 DEF Enrol, Register, AnswerForm, RefuseForm, FailInsert, setup, caches
<1>4. ASSUME NEW f \in Fields, NEW s \in FieldStates, EditField(f, s)
      PROVE  UNCHANGED <<event, regs, list, spots>>
  BY <1>4 DEF EditField, caches
<1>5. EditContent \/ Expire \/ UNCHANGED vars
        => /\ UNCHANGED <<event, regs>>
           /\ list' \in {list, NoEntry} /\ spots' \in {spots, NoEntry}
  BY DEF EditContent, Expire, vars, setup, caches
<1> QED BY <1>1, <1>2, <1>3, <1>4, <1>5 DEF Next

LEMMA CachesInit == Init => ListTold /\ SpotsTold
BY DEF Init, ListTold, SpotsTold

LEMMA CachesStep == ListTold /\ SpotsTold /\ SetupInv /\ [Next]_vars => (ListTold /\ SpotsTold)'
<1> SUFFICES ASSUME ListTold, SpotsTold, SetupInv, [Next]_vars
             PROVE  ListTold' /\ SpotsTold'
  OBVIOUS
<1>0. TypeOK /\ req \in [Reqs -> Request]
  BY DEF SetupInv, TypeOK
<1>1. ASSUME NEW c \in Reqs, NEW op \in Ops, req' = [req EXCEPT ![c] = Dropping(op)]
      PROVE  /\ req'[c].pc = "drop" /\ req'[c].op = op
             /\ DropsList(op) => ListTold'
             /\ DropsSpots(op) => SpotsTold'
  <2>1. req'[c].pc = "drop" /\ req'[c].op = op
    BY <1>0, <1>1 DEF Dropping, Idle
  <2> QED BY <2>1 DEF ListTold, SpotsTold, DropsList, DropsSpots
<1>2. ASSUME event' = event, list' \in {list, NoEntry},
             \A d \in Reqs : req[d].pc = "drop" /\ DropsList(req[d].op) => req'[d] = req[d]
      PROVE  ListTold'
  BY <1>2 DEF ListTold, DropsList, Shown
<1>3. ASSUME event' = event, spots' \in {spots, NoEntry},
             {r \in Rows : regs'[r] = "CONFIRMED"} = {r \in Rows : regs[r] = "CONFIRMED"},
             \A d \in Reqs : req[d].pc = "drop" /\ DropsSpots(req[d].op) => req'[d] = req[d]
      PROVE  SpotsTold'
  <2>1. Remaining(event.capacity)' = Remaining(event.capacity)
    BY <1>3 DEF Remaining, Used
  <2> QED BY <1>3, <2>1 DEF SpotsTold, DropsSpots
<1>4. ASSUME NEW c \in Reqs, NEW x, req' = [req EXCEPT ![c] = x], req[c].pc # "drop"
      PROVE  \A d \in Reqs : req[d].pc = "drop" => req'[d] = req[d]
  BY <1>0, <1>4
<1>5. ASSUME NEW c \in Reqs, WriteEvent(c)
      PROVE  ListTold' /\ SpotsTold'
  <2>1. req' = [req EXCEPT ![c] = Dropping(req[c].op)] /\ req[c].op \in EventEdits
    BY <1>5 DEF WriteEvent
  <2> QED BY <1>1, <2>1 DEF DropsList, DropsSpots, Ops
<1>6. ASSUME NEW c \in Reqs, DropCaches(c)
      PROVE  ListTold' /\ SpotsTold'
  <2>1. /\ UNCHANGED <<event, regs>> /\ req[c].pc = "drop" /\ req' = [req EXCEPT ![c] = Idle]
        /\ list' = IF DropsList(req[c].op) THEN NoEntry ELSE list
        /\ spots' = IF DropsSpots(req[c].op) THEN NoEntry ELSE spots
    BY <1>6 DEF DropCaches, Finish, setup
  <2>2. \A d \in Reqs \ {c} : req'[d] = req[d]
    BY <1>0, <2>1
  <2>3. ListTold'
    <3>1. CASE DropsList(req[c].op)
      BY <2>1, <3>1 DEF ListTold
    <3>2. CASE ~ DropsList(req[c].op)
      BY <1>2, <2>1, <2>2, <3>2
    <3> QED BY <3>1, <3>2
  <2>4. SpotsTold'
    <3>1. CASE DropsSpots(req[c].op)
      BY <2>1, <3>1 DEF SpotsTold
    <3>2. CASE ~ DropsSpots(req[c].op)
      BY <1>3, <2>1, <2>2, <3>2
    <3> QED BY <3>1, <3>2
  <2> QED BY <2>3, <2>4
<1>7. ASSUME NEW c \in Reqs, NEW r \in Rows, Confirm(c, r)
      PROVE  ListTold' /\ SpotsTold'
  <2>1. /\ event' = event /\ list' = list /\ req[c].pc = "idle"
        /\ req' = [req EXCEPT ![c] = Dropping("confirm")]
    BY <1>7 DEF Confirm, Start, setup, caches
  <2>2. SpotsTold'
    BY <1>1, <2>1 DEF DropsSpots, Ops
  <2>3. ListTold'
    BY <1>2, <1>4, <2>1
  <2> QED BY <2>2, <2>3
<1>8. ASSUME NEW c \in Reqs, NEW r \in Rows, Delete(c, r)
      PROVE  ListTold' /\ SpotsTold'
  <2>1. req' = [req EXCEPT ![c] = Dropping("delete")]
    BY <1>8 DEF Delete, Start
  <2> QED BY <1>1, <2>1 DEF DropsList, DropsSpots, Ops
<1>9. ASSUME NEW r \in Rows, ByHand(r)
      PROVE  ListTold' /\ SpotsTold'
  <2>1. UNCHANGED <<event, list, req>>
    BY <1>9 DEF ByHand, Revoke, ConfirmOffline, RegisterByHand, setup, caches
  <2>2. CASE Revoke(r) \/ ConfirmOffline(r)
    <3>1. spots' = IF spots = NoEntry THEN NoEntry ELSE [spots EXCEPT !.fresh = FALSE]
      BY <2>2 DEF Revoke, ConfirmOffline, SpotsOutdated
    <3>2. spots' # NoEntry => spots'.fresh = FALSE
      BY <1>0, <3>1 DEF TypeOK
    <3> QED BY <1>2, <2>1, <3>2 DEF SpotsTold
  <2>3. CASE RegisterByHand(r)
    <3>1. spots' = spots /\ regs[r] = "none" /\ regs' = [regs EXCEPT ![r] = "PENDING"]
      BY <2>3 DEF RegisterByHand, Unclaimed, caches
    <3>2. \A s \in Rows : regs'[s] = "CONFIRMED" <=> regs[s] = "CONFIRMED"
      BY <1>0, <3>1 DEF TypeOK
    <3>3. {s \in Rows : regs'[s] = "CONFIRMED"} = {s \in Rows : regs[s] = "CONFIRMED"}
      BY <3>2
    <3> QED BY <1>2, <1>3, <2>1, <3>1, <3>3
  <2> QED BY <1>9, <2>2, <2>3 DEF ByHand
<1>14. ASSUME NEW c \in Reqs, FailAfterCommit(c)
      PROVE  ListTold' /\ SpotsTold'
  <2>1. /\ UNCHANGED <<event, regs>>
        /\ list' = IF list = NoEntry THEN list
                   ELSE [list EXCEPT !.fresh = list.fresh /\ list.shown = Shown(event)]
        /\ spots' = IF spots = NoEntry THEN spots
                    ELSE [spots EXCEPT !.fresh = spots.fresh
                                         /\ spots.left = Remaining(event.capacity)]
    BY <1>14 DEF FailAfterCommit, setup
  <2>2. list' # NoEntry => list'.shown = list.shown /\ (list'.fresh => list.shown = Shown(event))
    BY <1>0, <2>1 DEF TypeOK
  <2>3. spots' # NoEntry => /\ spots'.left = spots.left
                            /\ spots'.fresh => spots.left = Remaining(event.capacity)
    BY <1>0, <2>1 DEF TypeOK
  <2>4. Remaining(event.capacity)' = Remaining(event.capacity) /\ Shown(event)' = Shown(event)
    BY <2>1 DEF Remaining, Used, Shown
  <2> QED BY <2>2, <2>3, <2>4 DEF ListTold, SpotsTold
<1>10. ASSUME NEW c \in Reqs, Insert(c)
      PROVE  ListTold' /\ SpotsTold'
  <2>1. /\ UNCHANGED <<event, list, spots>> /\ req[c].pc = "insert"
        /\ req' = [req EXCEPT ![c] = IF req[c].op = "team" THEN Idle ELSE Dropping(req[c].op)]
        /\ regs' = [regs EXCEPT ![req[c].r] = "PENDING"]
    BY <1>10 DEF Insert, setup, caches
  <2>2. regs[req[c].r] = "none"
    BY <2>1 DEF SetupInv, Knows, Enrolling, HoldsOpenEvent
  <2>3. \A r \in Rows : regs'[r] = "CONFIRMED" <=> regs[r] = "CONFIRMED"
    BY <1>0, <2>1, <2>2 DEF TypeOK
  <2>4. {r \in Rows : regs'[r] = "CONFIRMED"} = {r \in Rows : regs[r] = "CONFIRMED"}
    BY <2>3
  <2>5. \A d \in Reqs : req[d].pc = "drop" => req'[d] = req[d]
    BY <1>4, <2>1
  <2> QED BY <1>2, <1>3, <2>1, <2>4, <2>5
<1>11. ASSUME NEW c \in Reqs, CountCached(c) \/ StoreCount(c)
      PROVE  ListTold' /\ SpotsTold'
  <2>1. PICK left : Counted(c, left) /\ (spots' = spots \/ spots' = SpotsEntry(left))
    BY <1>11 DEF CountCached, StoreCount
  <2>2. UNCHANGED <<event, regs>> /\ req[c].pc \in {"count", "store"}
    BY <1>11 DEF CountCached, StoreCount, setup
  <2>3. \A d \in Reqs : req[d].pc = "drop" => req'[d] = req[d]
    BY <1>4, <2>1, <2>2 DEF Counted, Finish
  <2>4. list' = list \/ list' = ListEntry(req[c].seen)
    BY <2>1 DEF Counted
  <2>5. ListTold'
    <3>1. CASE list' = list
      BY <1>2, <2>2, <2>3, <3>1
    <3>2. CASE list' = ListEntry(req[c].seen)
      BY <2>2, <3>2 DEF ListTold, ListEntry, Shown
    <3> QED BY <2>4, <3>1, <3>2
  <2>6. SpotsTold'
    <3>1. CASE spots' = spots
      BY <1>3, <2>2, <2>3, <3>1
    <3>2. CASE spots' = SpotsEntry(left)
      BY <2>2, <3>2 DEF SpotsTold, SpotsEntry, Remaining, Used
    <3> QED BY <2>1, <3>1, <3>2
  <2> QED BY <2>5, <2>6
<1>12. CASE Restart
  BY <1>12 DEF Restart, ListTold, SpotsTold
<1>13. CASE /\ UNCHANGED <<event, regs>> /\ list' \in {list, NoEntry} /\ spots' \in {spots, NoEntry}
            /\ ~ Restart /\ \A c \in Reqs : ~ AfterCommit(c)
  <2>1. \A d \in Reqs : req[d].pc = "drop" => req'[d] = req[d]
    BY <1>13, DropsStay
  <2> QED BY <1>2, <1>3, <1>13, <2>1
<1> QED BY <1>5, <1>6, <1>7, <1>8, <1>9, <1>10, <1>11, <1>12, <1>13, <1>14, CacheSteps DEF AfterCommit

\* The places left and the list of events are cached only as long as nobody
\* has been told otherwise: every edit, every deletion and every confirmation
\* of a payment of Razorpay's that makes a cached answer false is about to
\* drop it, unless it fails after its commit (invalidate_spots_cache and
\* invalidate_events_list_cache of event_service.py).
THEOREM CachesLearn == Spec => []CachesAreTold
<1>1. ListTold /\ SpotsTold => CachesAreTold
  BY DEF ListTold, SpotsTold, CachesAreTold
<1> QED BY <1>1, CachesInit, CachesStep, SetupInvariant, PTL DEF Spec
=============================================================================
