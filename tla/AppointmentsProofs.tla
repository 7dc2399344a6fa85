--------------------------- MODULE AppointmentsProofs ---------------------------
(***************************************************************************)
(* Theorems about Appointments, for any finite sets of appointments and    *)
(* processes, any windows, assignees, batch size and clock.                *)
(***************************************************************************)
EXTENDS Appointments, FiniteSetTheorems, TLAPS

\* a and b are bookings of the same assignee that overlap.
Meet(a, b) ==
  /\ appt[a].assignee # Nobody /\ appt[a].assignee = appt[b].assignee
  /\ Overlaps(appt[a].window, appt[b].window)

\* Somebody else's booking b is in the way of a window for x.
Blocks(b, x, window) ==
  x # Nobody /\ Holds(b) /\ appt[b].assignee = x /\ Overlaps(appt[b].window, window)

\* What the check found is still so of everything that nobody has written since.
BookOk(w) ==
  w.at = "insert" => \A b \in Appts \ w.since : ~Blocks(b, w.assignee, w.to)

LoadOk(w) == w.at = "check" => appt[w.of] # Absent

MoveOk(w) ==
  w.at = "write" =>
    /\ appt[w.of] # Absent
    /\ \A b \in Appts \ w.since : b # w.of => ~Blocks(b, appt[w.of].assignee, w.to)

\* Whatever status a late request gives back to an appointment, the bookings that
\* are then in its way are new to the request, or known to have raced.
MarkOk(w) ==
  w.at = "mark" =>
    /\ appt[w.of] # Absent
    /\ w.of \notin w.since => Allowed(w.of, w.to)
    /\ \A b \in Appts \ w.since : (b # w.of /\ Holds(b) /\ Meet(w.of, b)) => {w.of, b} \in raced

\* A row that a sweep read is as it was unless somebody has written it since.
AsRead(a, told, since) ==
  /\ appt[a] # Absent
  /\ a \notin since => Holds(a) /\ appt[a].window.start = told

SweepOk(w) ==
  w.at \in {"claim", "notify"} =>
    /\ AsRead(w.of, w.told, w.since)
    /\ \A a \in DOMAIN w.rest : AsRead(a, w.rest[a], w.since)

Ok(w) == BookOk(w) /\ LoadOk(w) /\ MoveOk(w) /\ MarkOk(w) /\ SweepOk(w)

HandsInv == \A p \in Procs : Ok(proc[p])

IInv == TypeOK /\ DoubleBookingIsARace /\ RemindersAccountedFor /\ HandsInv

-----------------------------------------------------------------------------
Process ==
  {Idle} \cup Booking \cup Loaded \cup Moving \cup Marking
    \cup {w \in Reminding : w.of \notin DOMAIN w.rest}

\* What a process that others overtake has in hand.
Aged(w, c) ==
  IF w = Idle \/ w.at = "check" THEN w ELSE [w EXCEPT !.since = @ \cup {c}]

\* The fields of a place.
LEMMA Places ==
  ASSUME NEW w \in Process
  PROVE  /\ w.at = "insert" => w \in Booking
         /\ w.at = "check" => w \in Loaded
         /\ w.at = "write" => w \in Moving
         /\ w.at = "mark" => w \in Marking
         /\ w.at \in {"claim", "notify"} =>
              /\ w \in Reminding /\ w.of \notin DOMAIN w.rest
              /\ DOMAIN w.rest \in SUBSET Appts /\ w.rest \in [DOMAIN w.rest -> Starts]
         /\ w.at \in {"idle", "insert", "check", "write", "mark", "claim", "notify"}
         /\ w = Idle <=> w.at = "idle"
  <1>1. ASSUME w \in Reminding
        PROVE  /\ w.at \in {"claim", "notify"}
               /\ DOMAIN w.rest \in SUBSET Appts /\ w.rest \in [DOMAIN w.rest -> Starts]
    <2>1. w.at \in {"claim", "notify"} /\ w.rest \in UNION {[S -> Starts] : S \in SUBSET Appts}
      BY <1>1 DEF Reminding
    <2>2. PICK S \in SUBSET Appts : w.rest \in [S -> Starts]
      BY <2>1
    <2> QED
      BY <2>1, <2>2
  <1>2. w \in Booking => w.at = "insert"
    BY DEF Booking
  <1>3. w \in Loaded => w.at = "check"
    BY DEF Loaded
  <1>4. w \in Moving => w.at = "write"
    BY DEF Moving
  <1>5. w \in Marking => w.at = "mark"
    BY DEF Marking
  <1>6. w = Idle => w.at = "idle"
    BY DEF Idle
  <1>7. w \in Reminding => w.at \in {"claim", "notify"}
    BY <1>1
  <1> QED
    BY <1>1, <1>2, <1>3, <1>4, <1>5, <1>6, <1>7 DEF Process

LEMMA AgedType ==
  ASSUME NEW w \in Process, NEW c \in Appts
  PROVE  Aged(w, c) \in Process
  <1>1. CASE w.at \in {"idle", "check"}
    BY <1>1, Places DEF Aged
  <1>2. CASE w.at = "insert"
    <2>1. w \in Booking /\ w # Idle
      BY <1>2, Places
    <2> QED
      BY <1>2, <2>1 DEF Aged, Process, Booking
  <1>3. CASE w.at = "write"
    <2>1. w \in Moving /\ w # Idle
      BY <1>3, Places
    <2> QED
      BY <1>3, <2>1 DEF Aged, Process, Moving
  <1>4. CASE w.at = "mark"
    <2>1. w \in Marking /\ w # Idle
      BY <1>4, Places
    <2> QED
      BY <1>4, <2>1 DEF Aged, Process, Marking
  <1>5. CASE w.at \in {"claim", "notify"}
    <2>1. w \in Reminding /\ w # Idle /\ w.of \notin DOMAIN w.rest
      BY <1>5, Places
    <2>2. Aged(w, c) = [w EXCEPT !.since = @ \cup {c}]
      BY <1>5, <2>1 DEF Aged
    <2>3. Aged(w, c) \in Reminding /\ Aged(w, c).of = w.of /\ Aged(w, c).rest = w.rest
      BY <2>1, <2>2 DEF Reminding
    <2> QED
      BY <2>1, <2>3 DEF Process
  <1> QED
    BY <1>1, <1>2, <1>3, <1>4, <1>5, Places

LEMMA RowTypes ==
  ASSUME TypeOK, NEW a \in Appts
  PROVE  /\ appt[a] \in {Absent} \cup Row
         /\ Holds(a) => appt[a] \in Row
         /\ appt[a] # Absent <=> appt[a] \in Row
  <1>1. appt[a] \in {Absent} \cup Row
    BY DEF TypeOK
  <1>2. Absent.status = "ABSENT"
    BY DEF Absent
  <1>3. Absent \notin Row
    BY <1>2 DEF Row, Statuses
  <1> QED
    BY <1>1, <1>2, <1>3 DEF Holds, HOLDING_STATUSES

\* Windows overlap in both directions or in none.
LEMMA OverlapsBoth ==
  ASSUME NEW v \in Windows, NEW w \in Windows
  PROVE  Overlaps(v, w) <=> Overlaps(w, v)
  <1>1. v.start \in Nat /\ v.end \in Nat /\ w.start \in Nat /\ w.end \in Nat
    BY AppointmentsAssumption
  <1> QED
    BY <1>1 DEF Overlaps

-----------------------------------------------------------------------------
\* A step that changes no booking.
SameBookings ==
  \A b \in Appts :
    /\ appt'[b] = Absent <=> appt[b] = Absent
    /\ appt'[b].status = appt[b].status
    /\ appt[b] # Absent => /\ appt'[b].window = appt[b].window
                           /\ appt'[b].assignee = appt[b].assignee

LEMMA OkStays ==
  ASSUME TypeOK, SameBookings, raced' = raced, NEW w \in Process, Ok(w)
  PROVE  Ok(w)'
  <1>1. \A b \in Appts : Holds(b)' = Holds(b)
    BY DEF SameBookings, Holds
  <1>2. \A b \in Appts : Holds(b) => appt[b] # Absent
    BY RowTypes DEF Row, Absent, Holds, HOLDING_STATUSES
  <1>3. \A b \in Appts : \A x, v : Blocks(b, x, v)' <=> Blocks(b, x, v)
    BY <1>1, <1>2 DEF SameBookings, Blocks
  <1>4. \A a, b \in Appts : (appt[a] # Absent /\ Holds(b)) => (Meet(a, b)' <=> Meet(a, b))
    BY <1>2 DEF SameBookings, Meet
  <1>5. \A a \in Appts : \A told, since : AsRead(a, told, since) => AsRead(a, told, since)'
    BY <1>1, <1>2 DEF SameBookings, AsRead
  <1>6. BookOk(w)'
    BY <1>3 DEF Ok, BookOk
  <1>7. LoadOk(w)'
    BY Places DEF Ok, LoadOk, Loaded, SameBookings
  <1>8. MoveOk(w)'
    BY <1>3, Places DEF Ok, MoveOk, Moving, SameBookings
  <1>9. MarkOk(w)'
    <2>1. CASE w.at = "mark"
      <3>1. w \in Marking /\ w.of \in Appts
        BY <2>1, Places DEF Marking
      <3>2. MarkOk(w)
        BY DEF Ok
      <3>3. appt'[w.of] # Absent /\ appt[w.of] # Absent
        BY <2>1, <3>1, <3>2 DEF MarkOk, SameBookings
      <3>4. Allowed(w.of, w.to)' <=> Allowed(w.of, w.to)
        BY <3>1 DEF Allowed, SameBookings
      <3> QED
        BY <1>1, <1>4, <2>1, <3>1, <3>2, <3>3, <3>4 DEF MarkOk
    <2> QED
      BY <2>1 DEF MarkOk
  <1>10. SweepOk(w)'
    <2>1. CASE w.at \in {"claim", "notify"}
      <3>1. w.of \in Appts /\ DOMAIN w.rest \subseteq Appts
        BY <2>1, Places DEF Reminding
      <3> QED
        BY <1>5, <2>1, <3>1 DEF Ok, SweepOk
    <2> QED
      BY <2>1 DEF SweepOk
  <1> QED
    BY <1>6, <1>7, <1>8, <1>9, <1>10 DEF Ok

\* A step that writes the booking of c and nothing else.
Writes(c) ==
  /\ appt'[c] # Absent
  /\ appt[c] # Absent => appt'[c].assignee = appt[c].assignee
  /\ \A b \in Appts \ {c} : appt'[b] = appt[b]

\* What it says of pairs: those without c are kept, those of c are kept if the
\* bookings already met, and known to have raced if they meet now.
Remembers(c) ==
  /\ \A a, b \in Appts \ {c} : {a, b} \in raced => {a, b} \in raced'
  /\ \A b \in Appts \ {c} :
       (appt[c] # Absent /\ Holds(b) /\ Meet(c, b)')
         => \/ {c, b} \in raced'
            \/ Meet(c, b) /\ ({c, b} \in raced => {c, b} \in raced')

LEMMA OkAges ==
  ASSUME TypeOK, NEW c \in Appts, Writes(c), Remembers(c),
         NEW w \in Process, Ok(w)
  PROVE  Ok(Aged(w, c))'
  <1> SUFFICES ASSUME NEW v, v = Aged(w, c) PROVE Ok(v)'
    OBVIOUS
  <1>1. \A b \in Appts \ {c} : Holds(b)' = Holds(b)
    BY DEF Writes, Holds
  <1>2. \A b \in Appts \ {c} : \A x, u : Blocks(b, x, u)' <=> Blocks(b, x, u)
    BY DEF Writes, Blocks, Holds
  <1>3. CASE w.at \in {"idle", "check"}
    <2>1. v = w
      BY <1>3, Places DEF Aged
    <2>2. LoadOk(w)'
      BY <1>3, Places DEF Ok, LoadOk, Loaded, Writes
    <2>3. BookOk(w)' /\ MoveOk(w)' /\ MarkOk(w)' /\ SweepOk(w)'
      BY <1>3 DEF BookOk, MoveOk, MarkOk, SweepOk
    <2> QED
      BY <2>1, <2>2, <2>3 DEF Ok
  <1>4. ASSUME w.at \notin {"idle", "check"}
        PROVE  /\ v = [w EXCEPT !.since = @ \cup {c}]
               /\ v.at = w.at
    <2>1. v = [w EXCEPT !.since = @ \cup {c}]
      BY <1>4, Places DEF Aged
    <2>2. w \in Booking \cup Moving \cup Marking \cup Reminding
      BY <1>4, Places
    <2> QED
      BY <2>1, <2>2 DEF Booking, Moving, Marking, Reminding
  <1>5. CASE w.at = "insert"
    <2>1. w \in Booking
      BY <1>5, Places
    <2>2. v.since = w.since \cup {c} /\ v.at = "insert" /\ v.assignee = w.assignee /\ v.to = w.to
      BY <1>4, <1>5, <2>1 DEF Booking
    <2>3. \A b \in Appts \ v.since : ~Blocks(b, v.assignee, v.to)'
      BY <1>2, <1>5, <2>2 DEF Ok, BookOk
    <2> QED
      BY <2>2, <2>3 DEF Ok, BookOk, LoadOk, MoveOk, MarkOk, SweepOk
  <1>6. CASE w.at = "write"
    <2>1. w \in Moving /\ w.of \in Appts
      BY <1>6, Places DEF Moving
    <2>2. v.since = w.since \cup {c} /\ v.at = "write" /\ v.of = w.of /\ v.to = w.to
      BY <1>4, <1>6, <2>1 DEF Moving
    <2>3. appt[w.of] # Absent
      BY <1>6 DEF Ok, MoveOk
    <2>4. appt'[w.of] # Absent /\ appt'[w.of].assignee = appt[w.of].assignee
      BY <2>1, <2>3 DEF Writes
    <2>5. \A b \in Appts \ v.since : \A x :
            (b # v.of /\ x = appt[w.of].assignee) => ~Blocks(b, x, v.to)'
      BY <1>2, <1>6, <2>2 DEF Ok, MoveOk
    <2>6. \A b \in Appts \ v.since :
            b # v.of => ~Blocks(b, appt[v.of].assignee, v.to)'
      BY <2>2, <2>4, <2>5 DEF Blocks
    <2> QED
      BY <2>2, <2>4, <2>6 DEF Ok, BookOk, LoadOk, MoveOk, MarkOk, SweepOk
  <1>7. CASE w.at = "mark"
    <2>1. w \in Marking /\ w.of \in Appts
      BY <1>7, Places DEF Marking
    <2>2. v.since = w.since \cup {c} /\ v.at = "mark" /\ v.of = w.of /\ v.to = w.to
      BY <1>4, <1>7, <2>1 DEF Marking
    <2>3. MarkOk(w) /\ appt[w.of] # Absent
      BY <1>7 DEF Ok, MarkOk
    <2>4. appt'[w.of] # Absent
      BY <2>1, <2>3 DEF Writes
    <2>5. w.of \notin v.since => Allowed(w.of, w.to)'
      BY <1>7, <2>1, <2>2, <2>3 DEF MarkOk, Allowed, Writes
    <2>6. ASSUME NEW b \in Appts \ v.since, b # w.of, Holds(b)', Meet(w.of, b)'
          PROVE  {w.of, b} \in raced'
      <3>1. b # c /\ b \notin w.since /\ Holds(b)
        BY <1>1, <2>2, <2>6
      <3>2. Meet(w.of, b) => {w.of, b} \in raced
        BY <1>7, <2>3, <2>6, <3>1 DEF MarkOk
      <3>3. CASE w.of = c
        BY <2>3, <2>6, <3>1, <3>2, <3>3 DEF Remembers
      <3>4. CASE w.of # c
        <4>1. Meet(w.of, b)
          BY <2>1, <2>6, <3>1, <3>4 DEF Writes, Meet
        <4> QED
          BY <2>1, <3>1, <3>2, <3>4, <4>1 DEF Remembers
      <3> QED
        BY <3>3, <3>4
    <2> QED
      BY <2>2, <2>4, <2>5, <2>6 DEF Ok, BookOk, LoadOk, MoveOk, MarkOk, SweepOk
  <1>8. CASE w.at \in {"claim", "notify"}
    <2>1. w \in Reminding /\ w.of \in Appts /\ DOMAIN w.rest \subseteq Appts
      BY <1>8, Places DEF Reminding
    <2>2. /\ v.since = w.since \cup {c} /\ v.at = w.at /\ v.of = w.of
          /\ v.told = w.told /\ v.rest = w.rest
      BY <1>4, <1>8, <2>1 DEF Reminding
    <2>3. ASSUME NEW a \in Appts, NEW told, AsRead(a, told, w.since)
          PROVE  AsRead(a, told, v.since)'
      BY <1>1, <2>2, <2>3 DEF AsRead, Writes
    <2>4. SweepOk(v)'
      BY <1>8, <2>1, <2>2, <2>3 DEF Ok, SweepOk
    <2> QED
      BY <1>8, <2>2, <2>4 DEF Ok, BookOk, LoadOk, MoveOk, MarkOk
  <1> QED
    BY <1>3, <1>5, <1>6, <1>7, <1>8, Places

\* No step that keeps the bookings makes a double one.
LEMMA DoublesStay ==
  ASSUME TypeOK, DoubleBookingIsARace, SameBookings, raced' = raced
  PROVE  DoubleBookingIsARace'
  <1>1. \A b \in Appts : Holds(b) => appt[b] # Absent
    BY RowTypes DEF Row, Absent, Holds, HOLDING_STATUSES
  <1>2. \A b \in Appts : Holds(b)' = Holds(b)
    BY DEF SameBookings, Holds
  <1> QED
    BY <1>1, <1>2 DEF SameBookings, DoubleBookingIsARace

\* A write of c makes none that it does not remember.
LEMMA DoublesRemembered ==
  ASSUME TypeOK, TypeOK', DoubleBookingIsARace, NEW c \in Appts, Writes(c), Remembers(c),
         \A b \in Appts \ {c} : (Holds(c)' /\ Holds(b) /\ Meet(c, b)') => {c, b} \in raced'
  PROVE  DoubleBookingIsARace'
  <1> SUFFICES ASSUME NEW a \in Appts, NEW b \in Appts, a # b,
                      Holds(a)', Holds(b)', Meet(a, b)'
               PROVE  {a, b} \in raced'
    BY DEF DoubleBookingIsARace, Meet
  <1>1. \A d \in Appts \ {c} : Holds(d)' = Holds(d)
    BY DEF Writes, Holds
  <1>2. CASE a = c
    BY <1>1, <1>2
  <1>3. CASE b = c
    <2>1. appt'[a] # Absent /\ appt'[b] # Absent
      BY DEF Absent, Holds, HOLDING_STATUSES
    <2>2. Meet(b, a)'
      <3>1. Meet(a, b)' <=> Meet(b, a)'
        <4>1. appt'[a] \in Row /\ appt'[b] \in Row
          BY <2>1 DEF TypeOK
        <4>2. appt'[a].window \in Windows /\ appt'[b].window \in Windows
          BY <4>1 DEF Row
        <4>3. PICK v \in Windows, w \in Windows : v = appt'[a].window /\ w = appt'[b].window
          BY <4>2
        <4> QED
          BY <4>3, OverlapsBoth DEF Meet, Overlaps
      <3> QED
        BY <3>1
    <2>3. {b, a} \in raced' /\ {b, a} = {a, b}
      BY <1>1, <1>3, <2>2
    <2> QED
      BY <2>3
  <1>4. CASE a # c /\ b # c
    <2>1. Meet(a, b) /\ Holds(a) /\ Holds(b)
      BY <1>1, <1>4 DEF Writes, Meet
    <2>2. {a, b} \in raced
      BY <2>1 DEF DoubleBookingIsARace, Meet
    <2> QED
      BY <1>4, <2>2 DEF Remembers
  <1> QED
    BY <1>2, <1>3, <1>4

-----------------------------------------------------------------------------
Notifiers(a) == {s \in Procs : proc[s].at = "notify" /\ proc[s].of = a}
Claimed(a) == IF appt[a] # Absent /\ appt[a].reminded THEN 1 ELSE 0

LEMMA Accounts ==
  RemindersAccountedFor
    <=> \A a \in Appts : reminders[a] + lost[a] + Cardinality(Notifiers(a)) = Claimed(a)
  BY DEF RemindersAccountedFor, Notifiers, Claimed

LEMMA AccountsStay ==
  ASSUME RemindersAccountedFor, UNCHANGED <<reminders, lost>>,
         \A a \in Appts : Notifiers(a)' = Notifiers(a) /\ Claimed(a)' = Claimed(a)
  PROVE  RemindersAccountedFor'
  BY DEF RemindersAccountedFor, Notifiers, Claimed

LEMMA Hands ==
  ASSUME TypeOK
  PROVE  proc \in [Procs -> Process] /\ \A p \in Procs : proc[p] \in Process
  BY DEF TypeOK, Process

LEMMA IdleOk == Idle \in Process /\ Idle.at = "idle" /\ Ok(Idle)'
  BY DEF Idle, Process, Ok, BookOk, LoadOk, MoveOk, MarkOk, SweepOk

\* A process takes a step that changes no booking, and has w in hand after it.
LEMMA StepHands ==
  ASSUME IInv, NEW p \in Procs, NEW w \in Process, Step(p, w), Ok(w)',
         SameBookings, raced' = raced
  PROVE  /\ proc' \in [Procs -> Process]
         /\ HandsInv'
         /\ DoubleBookingIsARace'
         /\ \A a \in Appts : (proc[p].at # "notify" /\ w.at # "notify")
                               => Notifiers(a)' = Notifiers(a)
  <1>1. TypeOK /\ HandsInv /\ DoubleBookingIsARace
    BY DEF IInv
  <1>2. proc \in [Procs -> Process] /\ \A q \in Procs : proc[q] \in Process
    BY <1>1, Hands
  <1>3. proc' = [proc EXCEPT ![p] = w]
    BY DEF Step
  <1>4. proc' \in [Procs -> Process]
    BY <1>2, <1>3
  <1>5. \A q \in Procs : proc'[q] = IF q = p THEN w ELSE proc[q]
    BY <1>2, <1>3
  <1>6. ASSUME NEW q \in Procs PROVE Ok(proc[q])'
    <2>1. CASE q = p
      <3>1. proc'[q] = w
        BY <1>5, <2>1
      <3> QED
        BY <3>1 DEF Ok, BookOk, LoadOk, MoveOk, MarkOk, SweepOk
    <2>2. CASE q # p
      <3>1. PICK v \in Process : v = proc[q]
        BY <1>2
      <3>2. Ok(v)
        BY <1>1, <3>1 DEF HandsInv
      <3>3. Ok(v)'
        BY <1>1, <3>2, OkStays
      <3>4. proc'[q] = v
        BY <1>5, <2>2, <3>1
      <3> QED
        BY <3>3, <3>4 DEF Ok, BookOk, LoadOk, MoveOk, MarkOk, SweepOk
    <2> QED
      BY <2>1, <2>2
  <1>7. HandsInv'
    BY <1>6 DEF HandsInv
  <1>8. DoubleBookingIsARace'
    BY <1>1, DoublesStay
  <1>9. ASSUME NEW a \in Appts, proc[p].at # "notify", w.at # "notify"
        PROVE  Notifiers(a)' = Notifiers(a)
    BY <1>5, <1>9 DEF Notifiers
  <1> QED
    BY <1>4, <1>7, <1>8, <1>9

\* A request writes the booking of c and is done; the others are overtaken.
LEMMA WroteHands ==
  ASSUME IInv, NEW p \in Procs, NEW c \in Appts, Wrote(p, Idle, c),
         proc[p].at # "notify", Writes(c), Remembers(c)
  PROVE  /\ proc' \in [Procs -> Process]
         /\ HandsInv'
         /\ \A a \in Appts : Notifiers(a)' = Notifiers(a)
  <1>1. TypeOK /\ HandsInv
    BY DEF IInv
  <1>2. \A q \in Procs : proc[q] \in Process
    BY <1>1, Hands
  <1>3. proc' = [q \in Procs |-> IF q = p THEN Idle ELSE Aged(proc[q], c)]
    BY DEF Wrote, Aged
  <1>4. proc' \in [Procs -> Process]
    BY <1>2, <1>3, AgedType, IdleOk
  <1>5. ASSUME NEW q \in Procs PROVE Ok(proc[q])'
    <2>1. CASE q = p
      <3>1. proc'[q] = Idle
        BY <1>3, <2>1
      <3> QED
        BY <3>1, IdleOk DEF Ok, BookOk, LoadOk, MoveOk, MarkOk, SweepOk
    <2>2. CASE q # p
      <3>1. PICK v \in Process : v = proc[q]
        BY <1>2
      <3>2. Ok(v)
        BY <1>1, <3>1 DEF HandsInv
      <3>3. Ok(Aged(v, c))'
        BY <1>1, <3>2, OkAges
      <3>4. PICK u : u = Aged(v, c)
        OBVIOUS
      <3>5. proc'[q] = u /\ Ok(u)'
        BY <1>3, <2>2, <3>1, <3>3, <3>4
      <3> QED
        BY <3>5 DEF Ok, BookOk, LoadOk, MoveOk, MarkOk, SweepOk
    <2> QED
      BY <2>1, <2>2
  <1>6. HandsInv'
    BY <1>5 DEF HandsInv
  <1>7. ASSUME NEW w \in Process, NEW a
        PROVE  (Aged(w, c).at = "notify" /\ Aged(w, c).of = a) <=> (w.at = "notify" /\ w.of = a)
    <2>1. CASE w.at = "notify"
      <3>1. w \in Reminding /\ w # Idle
        BY <2>1, Places
      <3>2. Aged(w, c) = [w EXCEPT !.since = @ \cup {c}]
        BY <2>1, <3>1 DEF Aged
      <3>3. Aged(w, c).at = w.at /\ Aged(w, c).of = w.of
        BY <3>1, <3>2 DEF Reminding
      <3> QED
        BY <3>3
    <2>2. CASE w.at # "notify"
      <3>1. Aged(w, c).at = w.at
        <4>1. w = Idle \/ w \in Booking \cup Loaded \cup Moving \cup Marking \cup Reminding
          BY DEF Process
        <4> QED
          BY <4>1 DEF Aged, Booking, Loaded, Moving, Marking, Reminding
      <3> QED
        BY <2>2, <3>1
    <2> QED
      BY <2>1, <2>2
  <1>8. ASSUME NEW a \in Appts PROVE Notifiers(a)' = Notifiers(a)
    <2>1. p \notin Notifiers(a) /\ p \notin Notifiers(a)'
      BY <1>3, IdleOk DEF Notifiers
    <2>2. \A q \in Procs \ {p} : q \in Notifiers(a)' <=> q \in Notifiers(a)
      BY <1>2, <1>3, <1>7 DEF Notifiers
    <2> QED
      BY <2>1, <2>2 DEF Notifiers
  <1> QED
    BY <1>4, <1>6, <1>8

-----------------------------------------------------------------------------
LEMMA InitIInv == Init => IInv
  <1> SUFFICES ASSUME Init PROVE IInv
    OBVIOUS
  <1>1. TypeOK
    BY AppointmentsAssumption, IdleOk DEF Init, TypeOK, Process
  <1>2. \A a \in Appts : ~Holds(a)
    BY DEF Init, Holds, HOLDING_STATUSES, Absent
  <1>3. DoubleBookingIsARace
    BY <1>2 DEF DoubleBookingIsARace
  <1>4. RemindersAccountedFor
    <2>1. \A a \in Appts : Notifiers(a) = {}
      BY IdleOk DEF Init, Notifiers
    <2>2. \A a \in Appts : Cardinality(Notifiers(a)) = 0
      BY <2>1, FS_EmptySet
    <2>3. \A a \in Appts : Claimed(a) = 0 /\ reminders[a] = 0 /\ lost[a] = 0
      BY DEF Init, Claimed
    <2> QED
      BY <2>2, <2>3, Accounts
  <1>5. HandsInv
    BY IdleOk DEF Init, HandsInv, Ok, BookOk, LoadOk, MoveOk, MarkOk, SweepOk
  <1> QED
    BY <1>1, <1>3, <1>4, <1>5 DEF IInv

\* A read, or a request that ends without a write.
LEMMA QuietStep ==
  ASSUME IInv, NEW p \in Procs, NEW w \in Process, Step(p, w), Ok(w)',
         proc[p].at # "notify", w.at # "notify",
         UNCHANGED <<appt, now, reminders, lost, raced>>
  PROVE  IInv'
  <1>1. SameBookings
    BY DEF SameBookings
  <1>2. /\ proc' \in [Procs -> Process] /\ HandsInv' /\ DoubleBookingIsARace'
        /\ \A a \in Appts : Notifiers(a)' = Notifiers(a)
    BY <1>1, StepHands
  <1>3. TypeOK'
    BY <1>2 DEF IInv, TypeOK, Process
  <1>4. RemindersAccountedFor'
    <2>1. \A a \in Appts : Claimed(a)' = Claimed(a)
      BY DEF Claimed
    <2> QED
      BY <1>2, <2>1, AccountsStay DEF IInv
  <1> QED
    BY <1>2, <1>3, <1>4 DEF IInv

LEMMA BookKeepsIInv ==
  ASSUME IInv, NEW r \in Procs, NEW assignee \in Assignees, NEW window \in Windows,
         Book(r, assignee, window)
  PROVE  IInv'
  <1>1. PICK w : w = [at |-> "insert", to |-> window, assignee |-> assignee, since |-> {}]
    OBVIOUS
  <1>2. w \in Process /\ w.at = "insert"
    BY <1>1 DEF Process, Booking
  <1>3. proc[r].at # "notify" /\ Step(r, w) /\ UNCHANGED <<appt, now, reminders, lost, raced>>
    BY <1>1, IdleOk DEF Book
  <1>4. BookOk(w)'
    <2>1. \A b \in Appts : ~Blocks(b, assignee, window)
      BY DEF Book, Free, Blocks
    <2>2. \A b \in Appts : \A x, v : Blocks(b, x, v)' <=> Blocks(b, x, v)
      BY <1>3 DEF Blocks, Holds
    <2> QED
      BY <1>1, <2>1, <2>2 DEF BookOk
  <1>5. Ok(w)'
    BY <1>2, <1>4 DEF Ok, LoadOk, MoveOk, MarkOk, SweepOk
  <1> QED
    BY <1>2, <1>3, <1>5, QuietStep

LEMMA ReadForMoveKeepsIInv ==
  ASSUME IInv, NEW r \in Procs, NEW a \in Appts, NEW window \in Windows,
         ReadForMove(r, a, window)
  PROVE  IInv'
  <1>1. PICK w : w = [at |-> "check", of |-> a, to |-> window]
    OBVIOUS
  <1>2. w \in Process /\ w.at = "check" /\ w.of = a
    BY <1>1 DEF Process, Loaded
  <1>3. proc[r].at # "notify" /\ Step(r, w) /\ UNCHANGED <<appt, now, reminders, lost, raced>>
    BY <1>1, IdleOk DEF ReadForMove
  <1>4. LoadOk(w)'
    <2>1. appt[a] # Absent
      BY DEF ReadForMove, Holds, Absent, HOLDING_STATUSES
    <2> QED
      BY <1>2, <1>3, <2>1 DEF LoadOk
  <1>5. Ok(w)'
    BY <1>2, <1>4 DEF Ok, BookOk, MoveOk, MarkOk, SweepOk
  <1> QED
    BY <1>2, <1>3, <1>5, QuietStep

LEMMA CheckKeepsIInv ==
  ASSUME IInv, NEW r \in Procs, Check(r)
  PROVE  IInv'
  <1>1. proc[r] \in Loaded /\ Ok(proc[r])
    BY Hands, Places DEF IInv, HandsInv, Check
  <1>2. PICK a \in Appts, window \in Windows : a = proc[r].of /\ window = proc[r].to
    BY <1>1 DEF Loaded
  <1>3. PICK w : w = [at |-> "write", of |-> a, to |-> window, since |-> {}]
    OBVIOUS
  <1>4. w \in Process /\ w.at = "write" /\ w.of = a /\ w.to = window
    BY <1>3 DEF Process, Moving
  <1>5. proc[r].at # "notify" /\ Step(r, w) /\ UNCHANGED <<appt, now, reminders, lost, raced>>
    BY <1>2, <1>3 DEF Check
  <1>6. MoveOk(w)'
    <2>1. appt'[a] # Absent
      BY <1>1, <1>2, <1>5 DEF Check, Ok, LoadOk
    <2>2. \A b \in Appts : b # a => ~Blocks(b, appt[a].assignee, window)
      BY <1>2 DEF Check, Free, Blocks
    <2>3. \A b \in Appts : b # a => ~Blocks(b, appt[a].assignee, window)'
      BY <1>5, <2>2 DEF Blocks, Holds
    <2> QED
      BY <1>4, <2>1, <2>3 DEF MoveOk
  <1>7. Ok(w)'
    BY <1>4, <1>6 DEF Ok, BookOk, LoadOk, MarkOk, SweepOk
  <1> QED
    BY <1>4, <1>5, <1>7, QuietStep

LEMMA ReadForMarkKeepsIInv ==
  ASSUME IInv, NEW r \in Procs, NEW a \in Appts, NEW status \in Asked,
         ReadForMark(r, a, status)
  PROVE  IInv'
  <1>1. PICK w : w = [at |-> "mark", of |-> a, to |-> status, since |-> {}]
    OBVIOUS
  <1>2. w \in Process /\ w.at = "mark" /\ w.of = a /\ w.to = status /\ w.since = {}
    BY <1>1, AppointmentsAssumption DEF Process, Marking
  <1>3. proc[r].at # "notify" /\ Step(r, w) /\ UNCHANGED <<appt, now, reminders, lost, raced>>
    BY <1>1, IdleOk DEF ReadForMark
  <1>4. MarkOk(w)'
    <2>1. appt[a] # Absent /\ Allowed(a, status)
      BY DEF ReadForMark
    <2>2. Holds(a)
      <3>1. appt[a] \in Row
        BY <2>1, RowTypes DEF IInv
      <3>2. appt[a].status \in Statuses /\ status \in TRANSITIONS[appt[a].status]
        BY <2>1, <3>1 DEF Row, Allowed
      <3> QED
        BY <3>2 DEF Statuses, TRANSITIONS, Holds, HOLDING_STATUSES
    <2>3. \A b \in Appts : (b # a /\ Holds(b) /\ Meet(a, b)) => {a, b} \in raced
      BY <2>2 DEF IInv, DoubleBookingIsARace, Meet
    <2>4. \A b \in Appts : (Holds(b) /\ Meet(a, b))' <=> Holds(b) /\ Meet(a, b)
      BY <1>3 DEF Holds, Meet
    <2>5. Allowed(a, status)' /\ appt'[a] # Absent
      BY <1>3, <2>1 DEF Allowed
    <2> QED
      BY <1>2, <1>3, <2>3, <2>4, <2>5 DEF MarkOk
  <1>5. Ok(w)'
    BY <1>2, <1>4 DEF Ok, BookOk, LoadOk, MoveOk, SweepOk
  <1> QED
    BY <1>2, <1>3, <1>5, QuietStep

LEMMA AbortKeepsIInv ==
  ASSUME IInv, NEW r \in Procs, Abort(r)
  PROVE  IInv'
  <1>1. proc[r].at # "notify" /\ Step(r, Idle) /\ UNCHANGED <<appt, now, reminders, lost, raced>>
    BY DEF Abort
  <1> QED
    BY <1>1, IdleOk, QuietStep

-----------------------------------------------------------------------------
LEMMA PairsAreSets ==
  ASSUME TypeOK, NEW c \in Appts, NEW since \in SUBSET Appts
  PROVE  PairsOf(c, since) \subseteq SUBSET Appts
  BY DEF PairsOf

\* A write of c, put together from what it leaves and what it remembers.
LEMMA WriteStep ==
  ASSUME IInv, NEW p \in Procs, NEW c \in Appts, Wrote(p, Idle, c), proc[p].at # "notify",
         appt' \in [Appts -> {Absent} \cup Row], raced' \subseteq SUBSET Appts,
         UNCHANGED <<now, reminders, lost>>,
         Writes(c), Remembers(c), Claimed(c)' = Claimed(c),
         \A b \in Appts \ {c} : (Holds(c)' /\ Holds(b) /\ Meet(c, b)') => {c, b} \in raced'
  PROVE  IInv'
  <1>1. /\ proc' \in [Procs -> Process] /\ HandsInv'
        /\ \A a \in Appts : Notifiers(a)' = Notifiers(a)
    BY WroteHands
  <1>2. TypeOK'
    BY <1>1 DEF IInv, TypeOK, Process
  <1>3. DoubleBookingIsARace'
    BY <1>2, DoublesRemembered DEF IInv
  <1>4. RemindersAccountedFor'
    <2>1. \A a \in Appts : Claimed(a)' = Claimed(a)
      BY DEF Claimed, Writes
    <2> QED
      BY <1>1, <2>1, AccountsStay DEF IInv
  <1> QED
    BY <1>1, <1>2, <1>3, <1>4 DEF IInv

LEMMA InsertKeepsIInv ==
  ASSUME IInv, NEW r \in Procs, Insert(r)
  PROVE  IInv'
  <1>1. TypeOK /\ proc[r] \in Booking /\ Ok(proc[r]) /\ appt \in [Appts -> {Absent} \cup Row]
    BY Hands, Places DEF IInv, HandsInv, Insert, TypeOK
  <1>2. PICK w : w = proc[r]
    OBVIOUS
  <1>3. /\ w.to \in Windows /\ w.assignee \in Assignees /\ w.since \in SUBSET Appts
        /\ w.at = "insert" /\ BookOk(w)
    BY <1>1, <1>2 DEF Booking, Ok
  <1>4. PICK a \in Appts :
          /\ appt[a] = Absent
          /\ appt' = [appt EXCEPT ![a] = [status |-> "SCHEDULED", window |-> w.to,
                                          assignee |-> w.assignee, reminded |-> FALSE]]
          /\ Wrote(r, Idle, a)
          /\ raced' = raced \cup PairsOf(a, w.since)
    BY <1>2 DEF Insert
  <1>5. /\ appt'[a] \in Row /\ appt'[a].window = w.to /\ appt'[a].assignee = w.assignee
        /\ ~appt'[a].reminded
        /\ \A b \in Appts \ {a} : appt'[b] = appt[b]
    BY <1>1, <1>3, <1>4 DEF Row, Statuses
  <1>6. appt' \in [Appts -> {Absent} \cup Row]
    BY <1>1, <1>4, <1>5
  <1>7. appt'[a] # Absent
    <2>1. appt'[a].status \in Statuses
      BY <1>5 DEF Row
    <2> QED
      BY <2>1 DEF Statuses, Absent
  <1>8. Writes(a)
    BY <1>4, <1>5, <1>7 DEF Writes
  <1>9. Remembers(a)
    BY <1>4 DEF Remembers
  <1>10. Claimed(a)' = Claimed(a)
    BY <1>4, <1>5 DEF Claimed
  <1>11. ASSUME NEW b \in Appts \ {a}, Holds(b), Meet(a, b)'
         PROVE  {a, b} \in raced'
    <2>1. appt[b] \in Row
      BY <1>1, <1>11, RowTypes
    <2>2. appt[b].window \in Windows /\ appt'[b] = appt[b]
      BY <1>5, <2>1 DEF Row
    <2>3. w.assignee # Nobody /\ appt[b].assignee = w.assignee /\ Overlaps(w.to, appt[b].window)
      BY <1>5, <1>11, <2>2 DEF Meet, Overlaps
    <2>4. Blocks(b, w.assignee, w.to)
      BY <1>3, <1>11, <2>2, <2>3, OverlapsBoth DEF Blocks
    <2>5. b \in w.since
      BY <1>3, <2>4 DEF BookOk
    <2> QED
      BY <1>4, <2>5 DEF PairsOf
  <1>12. raced' \subseteq SUBSET Appts
    BY <1>1, <1>3, <1>4, PairsAreSets DEF TypeOK
  <1> QED
    BY <1>2, <1>3, <1>4, <1>6, <1>8, <1>9, <1>10, <1>11, <1>12, WriteStep DEF Insert

LEMMA MoveKeepsIInv ==
  ASSUME IInv, NEW r \in Procs, Move(r)
  PROVE  IInv'
  <1>1. TypeOK /\ proc[r] \in Moving /\ Ok(proc[r]) /\ appt \in [Appts -> {Absent} \cup Row]
    BY Hands, Places DEF IInv, HandsInv, Move, TypeOK
  <1>2. PICK w : w = proc[r]
    OBVIOUS
  <1>3. w.to \in Windows /\ w.since \in SUBSET Appts /\ w.at = "write" /\ MoveOk(w)
    BY <1>1, <1>2 DEF Moving, Ok
  <1>4. PICK a \in Appts : a = w.of
    BY <1>1, <1>2 DEF Moving
  <1>5. /\ appt' = [appt EXCEPT ![a].window = w.to]
        /\ Wrote(r, Idle, a)
        /\ raced' = {pair \in raced : a \notin pair} \cup PairsOf(a, w.since)
    BY <1>2, <1>4 DEF Move
  <1>6. appt[a] \in Row
    BY <1>1, <1>3, <1>4, RowTypes DEF MoveOk
  <1>7. /\ appt'[a] = [appt[a] EXCEPT !.window = w.to]
        /\ \A b \in Appts \ {a} : appt'[b] = appt[b]
    BY <1>1, <1>5
  <1>8. /\ appt'[a] \in Row /\ appt'[a].window = w.to
        /\ appt'[a].assignee = appt[a].assignee /\ appt'[a].reminded = appt[a].reminded
    BY <1>3, <1>6, <1>7 DEF Row
  <1>9. appt' \in [Appts -> {Absent} \cup Row]
    BY <1>1, <1>5, <1>7, <1>8
  <1>10. appt'[a] # Absent /\ appt[a] # Absent
    <2>1. appt'[a].status \in Statuses /\ appt[a].status \in Statuses
      BY <1>6, <1>8 DEF Row
    <2> QED
      BY <2>1 DEF Statuses, Absent
  <1>11. Writes(a)
    BY <1>7, <1>8, <1>10 DEF Writes
  <1>12. ASSUME NEW b \in Appts \ {a}, Holds(b), Meet(a, b)'
         PROVE  {a, b} \in raced'
    <2>1. appt[b] \in Row
      BY <1>1, <1>12, RowTypes
    <2>2. appt[b].window \in Windows /\ appt'[b] = appt[b]
      BY <1>7, <2>1 DEF Row
    <2>3. /\ appt[a].assignee # Nobody /\ appt[b].assignee = appt[a].assignee
          /\ Overlaps(w.to, appt[b].window)
      BY <1>8, <1>12, <2>2 DEF Meet, Overlaps
    <2>4. Blocks(b, appt[a].assignee, w.to)
      BY <1>3, <1>12, <2>2, <2>3, OverlapsBoth DEF Blocks
    <2>5. b \in w.since
      BY <1>3, <1>4, <2>4 DEF MoveOk
    <2> QED
      BY <1>5, <2>5 DEF PairsOf
  <1>13. Remembers(a)
    <2>1. \A b \in Appts \ {a} : Holds(b)' = Holds(b)
      BY <1>7 DEF Holds
    <2>2. \A b, c \in Appts \ {a} : {b, c} \in raced => {b, c} \in raced'
      BY <1>5
    <2> QED
      BY <1>12, <2>1, <2>2 DEF Remembers
  <1>14. Claimed(a)' = Claimed(a)
    BY <1>8, <1>10 DEF Claimed
  <1>15. raced' \subseteq SUBSET Appts
    BY <1>1, <1>3, <1>5, PairsAreSets DEF TypeOK
  <1> QED
    BY <1>2, <1>3, <1>5, <1>9, <1>11, <1>12, <1>13, <1>14, <1>15, WriteStep DEF Move

LEMMA MarkKeepsIInv ==
  ASSUME IInv, NEW r \in Procs, Mark(r)
  PROVE  IInv'
  <1>1. TypeOK /\ proc[r] \in Marking /\ Ok(proc[r]) /\ appt \in [Appts -> {Absent} \cup Row]
    BY Hands, Places DEF IInv, HandsInv, Mark, TypeOK
  <1>2. PICK w : w = proc[r]
    OBVIOUS
  <1>3. w.to \in Statuses /\ w.since \in SUBSET Appts /\ w.at = "mark" /\ MarkOk(w)
    BY <1>1, <1>2 DEF Marking, Ok
  <1>4. PICK a \in Appts : a = w.of
    BY <1>1, <1>2 DEF Marking
  <1>5. /\ appt' = [appt EXCEPT ![a].status = w.to]
        /\ Wrote(r, Idle, a)
        /\ raced' = IF a \in w.since THEN raced \cup PairsOf(a, w.since) ELSE raced
    BY <1>2, <1>4 DEF Mark
  <1>6. appt[a] \in Row
    BY <1>1, <1>3, <1>4, RowTypes DEF MarkOk
  <1>7. /\ appt'[a] = [appt[a] EXCEPT !.status = w.to]
        /\ \A b \in Appts \ {a} : appt'[b] = appt[b]
    BY <1>1, <1>5
  <1>8. /\ appt'[a] \in Row /\ appt'[a].window = appt[a].window
        /\ appt'[a].assignee = appt[a].assignee /\ appt'[a].reminded = appt[a].reminded
    BY <1>3, <1>6, <1>7 DEF Row
  <1>9. appt' \in [Appts -> {Absent} \cup Row]
    BY <1>1, <1>5, <1>7, <1>8
  <1>10. appt'[a] # Absent /\ appt[a] # Absent
    <2>1. appt'[a].status \in Statuses /\ appt[a].status \in Statuses
      BY <1>6, <1>8 DEF Row
    <2> QED
      BY <2>1 DEF Statuses, Absent
  <1>11. Writes(a)
    BY <1>7, <1>8, <1>10 DEF Writes
  <1>12. \A b \in Appts \ {a} : Meet(a, b)' <=> Meet(a, b)
    BY <1>7, <1>8 DEF Meet, Overlaps
  <1>13. raced \subseteq raced'
    BY <1>5
  <1>14. Remembers(a)
    BY <1>12, <1>13 DEF Remembers
  <1>15. ASSUME NEW b \in Appts \ {a}, Holds(a)', Holds(b), Meet(a, b)'
         PROVE  {a, b} \in raced'
    <2>1. CASE a \in w.since /\ b \in w.since
      BY <1>5, <2>1 DEF PairsOf
    <2>2. CASE b \notin w.since
      BY <1>3, <1>4, <1>12, <1>13, <1>15, <2>2 DEF MarkOk
    <2>3. CASE a \notin w.since
      <3>1. Allowed(a, w.to)
        BY <1>3, <1>4, <2>3 DEF MarkOk
      <3>2. appt[a].status \in Statuses
        BY <1>6 DEF Row
      <3>3. Holds(a)
        BY <3>1, <3>2 DEF Allowed, Statuses, TRANSITIONS, Holds, HOLDING_STATUSES
      <3>4. {a, b} \in raced
        BY <1>12, <1>15, <3>3 DEF IInv, DoubleBookingIsARace, Meet
      <3> QED
        BY <1>13, <3>4
    <2> QED
      BY <2>1, <2>2, <2>3
  <1>16. Claimed(a)' = Claimed(a)
    BY <1>8, <1>10 DEF Claimed
  <1>17. raced' \subseteq SUBSET Appts
    BY <1>1, <1>3, <1>5, PairsAreSets DEF TypeOK
  <1> QED
    BY <1>2, <1>3, <1>5, <1>9, <1>11, <1>14, <1>15, <1>16, <1>17, WriteStep DEF Mark

-----------------------------------------------------------------------------
LEMMA AsReadStays ==
  ASSUME TypeOK, SameBookings, NEW a \in Appts, NEW told, NEW since, AsRead(a, told, since)
  PROVE  AsRead(a, told, since)'
  BY RowTypes DEF SameBookings, AsRead, Holds

\* A sweep that goes on has, of the rows it read, the one it is at and the others.
LEMMA GoOnHands ==
  ASSUME NEW D \in SUBSET Appts, NEW rows \in [D -> Starts], NEW since \in SUBSET Appts,
         NEW w \in GoOn(rows, since), \A a \in D : AsRead(a, rows[a], since)'
  PROVE  w \in Process /\ w.at # "notify" /\ Ok(w)'
  <1>1. CASE D = {}
    <2>1. w = Idle
      BY <1>1 DEF GoOn
    <2> QED
      BY <2>1, IdleOk
  <1>2. CASE D # {}
    <2>1. PICK a \in D : w = [at |-> "claim", of |-> a, told |-> rows[a],
                              rest |-> Without(rows, a), since |-> since]
      BY <1>2 DEF GoOn
    <2>2. Without(rows, a) \in [D \ {a} -> Starts]
      BY <2>1 DEF Without
    <2>3. /\ w.at = "claim" /\ w.of = a /\ w.told = rows[a] /\ w.since = since
          /\ w.rest \in [D \ {a} -> Starts]
      BY <2>1, <2>2
    <2>4. w \in Reminding /\ w.of \notin DOMAIN w.rest
      <3>1. w.rest \in UNION {[S -> Starts] : S \in SUBSET Appts}
        BY <2>3
      <3> QED
        BY <2>1, <2>3, <3>1 DEF Reminding
    <2>5. \A b \in DOMAIN w.rest : b \in D /\ w.rest[b] = rows[b]
      BY <2>1, <2>3 DEF Without
    <2>6. SweepOk(w)'
      BY <2>3, <2>5 DEF SweepOk
    <2> QED
      BY <2>3, <2>4, <2>6 DEF Process, Ok, BookOk, LoadOk, MoveOk, MarkOk
  <1> QED
    BY <1>1, <1>2

LEMMA FinishHands ==
  ASSUME IInv, NEW s \in Procs, proc[s].at \in {"claim", "notify"}, SameBookings, Finish(s)
  PROVE  \E w \in Process : Step(s, w) /\ w.at # "notify" /\ Ok(w)'
  <1>1. TypeOK /\ proc[s] \in Process /\ SweepOk(proc[s])
    BY Hands DEF IInv, HandsInv, Ok
  <1>2. PICK v \in Process : v = proc[s]
    BY <1>1
  <1>3. /\ v \in Reminding /\ DOMAIN v.rest \in SUBSET Appts /\ v.rest \in [DOMAIN v.rest -> Starts]
        /\ v.since \in SUBSET Appts
    BY <1>2, Places DEF Reminding
  <1>4. PICK w \in GoOn(v.rest, v.since) : Step(s, w)
    BY <1>2 DEF Finish
  <1>5. \A a \in DOMAIN v.rest : AsRead(a, v.rest[a], v.since)
    BY <1>1, <1>2 DEF SweepOk
  <1>6. \A a \in DOMAIN v.rest : AsRead(a, v.rest[a], v.since)'
    BY <1>1, <1>3, <1>5, AsReadStays
  <1>7. w \in Process /\ w.at # "notify" /\ Ok(w)'
    BY <1>3, <1>4, <1>6, GoOnHands
  <1> QED
    BY <1>4, <1>7

LEMMA StartSweepKeepsIInv ==
  ASSUME IInv, NEW s \in Procs, StartSweep(s)
  PROVE  IInv'
  <1>1. PICK S \in Batches : \E next \in GoOn([a \in S |-> appt[a].window.start], {}) : Step(s, next)
    BY DEF StartSweep
  <1>2. S \in SUBSET Candidates /\ S \in SUBSET Appts
    BY DEF Batches, Candidates
  <1>3. \A a \in S : appt[a] \in Row /\ Holds(a)
    BY <1>2, RowTypes DEF IInv, Candidates
  <1>4. \A a \in S : appt[a].window.start \in Starts
    BY <1>3 DEF Row, Starts
  <1>5. PICK rows : rows = [a \in S |-> appt[a].window.start]
    OBVIOUS
  <1>6. rows \in [S -> Starts]
    BY <1>4, <1>5
  <1>7. PICK w \in GoOn(rows, {}) : Step(s, w)
    BY <1>1, <1>5
  <1>8. UNCHANGED <<appt, now, reminders, lost, raced>>
    BY DEF StartSweep
  <1>9. \A a \in S : AsRead(a, rows[a], {})
    BY <1>2, <1>3, <1>5, RowTypes DEF IInv, AsRead
  <1>10. \A a \in S : AsRead(a, rows[a], {})'
    BY <1>8, <1>9 DEF AsRead, Holds
  <1>11. w \in Process /\ w.at # "notify" /\ Ok(w)'
    BY <1>2, <1>6, <1>7, <1>10, GoOnHands
  <1>12. proc[s].at # "notify"
    BY IdleOk DEF StartSweep
  <1> QED
    BY <1>7, <1>8, <1>11, <1>12, QuietStep

\* The numbers of an account.
LEMMA Numbers ==
  ASSUME IInv, NEW a \in Appts
  PROVE  /\ reminders[a] \in Nat /\ lost[a] \in Nat
         /\ IsFiniteSet(Notifiers(a)) /\ Cardinality(Notifiers(a)) \in Nat
         /\ reminders[a] + lost[a] + Cardinality(Notifiers(a)) = Claimed(a)
  <1>1. IsFiniteSet(Procs) /\ Notifiers(a) \subseteq Procs
    BY AppointmentsAssumption DEF Notifiers
  <1>2. IsFiniteSet(Notifiers(a)) /\ Cardinality(Notifiers(a)) \in Nat
    BY <1>1, FS_Subset, FS_CardinalityType
  <1> QED
    BY <1>2, Accounts DEF IInv, TypeOK

\* A notification is written or lost; either way the claim has been accounted for.
LEMMA NotifyEnds ==
  ASSUME IInv, NEW s \in Procs, proc[s].at = "notify",
         NEW w \in Process, w.at # "notify", Ok(w)', Step(s, w),
         UNCHANGED <<appt, now, raced>>,
         \/ reminders' = [reminders EXCEPT ![proc[s].of] = @ + 1] /\ lost' = lost
         \/ lost' = [lost EXCEPT ![proc[s].of] = @ + 1] /\ reminders' = reminders
  PROVE  IInv'
  <1>1. SameBookings
    BY DEF SameBookings
  <1>2. proc' \in [Procs -> Process] /\ HandsInv' /\ DoubleBookingIsARace'
    BY <1>1, StepHands
  <1>3. TypeOK /\ proc \in [Procs -> Process]
    BY Hands DEF IInv
  <1>4. PICK a \in Appts : a = proc[s].of
    BY <1>3, Places DEF Reminding
  <1>5. reminders \in [Appts -> Nat] /\ lost \in [Appts -> Nat]
    BY <1>3 DEF TypeOK
  <1>6. reminders' \in [Appts -> Nat] /\ lost' \in [Appts -> Nat]
    BY <1>4, <1>5
  <1>7. TypeOK'
    BY <1>2, <1>3, <1>6 DEF TypeOK, Process
  <1>8. \A q \in Procs : proc'[q] = IF q = s THEN w ELSE proc[q]
    BY <1>3 DEF Step
  <1>9. ASSUME NEW b \in Appts
        PROVE  reminders'[b] + lost'[b] + Cardinality(Notifiers(b)') = Claimed(b)'
    <2>1. Claimed(b)' = Claimed(b)
      BY DEF Claimed
    <2>2. CASE b = a
      <3>1. s \in Notifiers(b) /\ Notifiers(b)' = Notifiers(b) \ {s}
        BY <1>4, <1>8, <2>2 DEF Notifiers
      <3>2. Cardinality(Notifiers(b)') = Cardinality(Notifiers(b)) - 1
        BY <3>1, Numbers, FS_RemoveElement
      <3>3. reminders'[b] + lost'[b] = reminders[b] + lost[b] + 1
        BY <1>4, <1>5, <2>2
      <3>4. reminders'[b] \in Nat /\ lost'[b] \in Nat
        BY <1>6
      <3> QED
        BY <2>1, <3>2, <3>3, <3>4, Numbers
    <2>3. CASE b # a
      <3>1. Notifiers(b)' = Notifiers(b)
        BY <1>4, <1>8, <2>3 DEF Notifiers
      <3>2. reminders'[b] = reminders[b] /\ lost'[b] = lost[b]
        BY <1>4, <1>5, <2>3
      <3> QED
        BY <2>1, <3>1, <3>2, Numbers
    <2> QED
      BY <2>2, <2>3
  <1>10. RemindersAccountedFor'
    BY <1>9 DEF RemindersAccountedFor, Notifiers, Claimed
  <1> QED
    BY <1>2, <1>7, <1>10 DEF IInv

LEMMA ReminderSet ==
  ASSUME TypeOK, NEW a \in Appts, appt[a] # Absent,
         appt' = [appt EXCEPT ![a].reminded = TRUE]
  PROVE  /\ SameBookings /\ appt' \in [Appts -> {Absent} \cup Row]
         /\ appt'[a].reminded /\ appt'[a] # Absent
         /\ \A b \in Appts \ {a} : appt'[b] = appt[b]
  <1>1. appt \in [Appts -> {Absent} \cup Row] /\ appt[a] \in Row
    BY RowTypes DEF TypeOK
  <1>2. /\ appt'[a] = [appt[a] EXCEPT !.reminded = TRUE]
        /\ \A b \in Appts \ {a} : appt'[b] = appt[b]
    BY <1>1
  <1>3. /\ appt'[a] \in Row /\ appt'[a].reminded
        /\ appt'[a].status = appt[a].status /\ appt'[a].window = appt[a].window
        /\ appt'[a].assignee = appt[a].assignee
    BY <1>1, <1>2 DEF Row
  <1>4. appt'[a] # Absent
    <2>1. appt'[a].status \in Statuses
      BY <1>3 DEF Row
    <2> QED
      BY <2>1 DEF Statuses, Absent
  <1>5. SameBookings
    BY <1>2, <1>3, <1>4 DEF SameBookings
  <1>6. appt' \in [Appts -> {Absent} \cup Row]
    BY <1>1, <1>3
  <1> QED
    BY <1>2, <1>3, <1>4, <1>5, <1>6

\* A claim takes effect: a notification is due, or lost at once.
LEMMA ClaimEnds ==
  ASSUME IInv, NEW s \in Procs, proc[s].at = "claim",
         NEW a \in Appts, appt[a] # Absent, Unreminded(a),
         appt' = [appt EXCEPT ![a].reminded = TRUE],
         NEW w \in Process, Ok(w)', Step(s, w), UNCHANGED <<now, reminders, raced>>,
         \/ w.at = "notify" /\ w.of = a /\ lost' = lost
         \/ w.at # "notify" /\ lost' = [lost EXCEPT ![a] = @ + 1]
  PROVE  IInv'
  <1>1. TypeOK /\ proc \in [Procs -> Process] /\ lost \in [Appts -> Nat]
    BY Hands DEF IInv, TypeOK
  <1>2. /\ SameBookings /\ appt' \in [Appts -> {Absent} \cup Row]
        /\ appt'[a].reminded /\ appt'[a] # Absent
        /\ \A b \in Appts \ {a} : appt'[b] = appt[b]
    BY <1>1, ReminderSet
  <1>3. proc' \in [Procs -> Process] /\ HandsInv' /\ DoubleBookingIsARace'
    BY <1>2, StepHands
  <1>4. lost' \in [Appts -> Nat]
    BY <1>1
  <1>5. TypeOK'
    BY <1>1, <1>2, <1>3, <1>4 DEF TypeOK, Process
  <1>6. \A q \in Procs : proc'[q] = IF q = s THEN w ELSE proc[q]
    BY <1>1 DEF Step
  <1>7. Claimed(a) = 0 /\ Claimed(a)' = 1
    BY <1>2 DEF Claimed, Unreminded
  <1>8. \A b \in Appts : s \notin Notifiers(b)
    BY DEF Notifiers
  <1>9. ASSUME NEW b \in Appts
        PROVE  reminders'[b] + lost'[b] + Cardinality(Notifiers(b)') = Claimed(b)'
    <2>1. CASE b = a /\ w.at = "notify"
      <3>1. Notifiers(b)' = Notifiers(b) \cup {s} /\ s \notin Notifiers(b) /\ lost' = lost
        BY <1>6, <1>8, <2>1 DEF Notifiers
      <3>2. Cardinality(Notifiers(b)') = Cardinality(Notifiers(b)) + 1
        BY <3>1, Numbers, FS_AddElement
      <3> QED
        BY <1>7, <2>1, <3>1, <3>2, Numbers
    <2>2. CASE b = a /\ w.at # "notify"
      <3>1. Notifiers(b)' = Notifiers(b)
        BY <1>6, <1>8, <2>2 DEF Notifiers
      <3>2. lost'[b] = lost[b] + 1 /\ reminders'[b] = reminders[b]
        BY <1>1, <2>2
      <3>3. Claimed(b) = 0 /\ Claimed(b)' = 1
        BY <1>7, <2>2
      <3>4. reminders[b] + lost[b] + Cardinality(Notifiers(b)) = 0
        BY <3>3, Numbers
      <3>5. Cardinality(Notifiers(b)') = Cardinality(Notifiers(b))
        BY <3>1
      <3>6. /\ reminders[b] \in Nat /\ lost[b] \in Nat
            /\ Cardinality(Notifiers(b)) \in Nat
        BY Numbers
      <3> QED
        BY <3>2, <3>3, <3>4, <3>5, <3>6
    <2>3. CASE b # a
      <3>1. Notifiers(b)' = Notifiers(b)
        BY <1>6, <1>8, <2>3 DEF Notifiers
      <3>2. lost'[b] = lost[b] /\ Claimed(b)' = Claimed(b)
        BY <1>1, <1>2, <2>3 DEF Claimed
      <3> QED
        BY <3>1, <3>2, Numbers
    <2> QED
      BY <2>1, <2>2, <2>3
  <1>10. RemindersAccountedFor'
    BY <1>9 DEF RemindersAccountedFor, Notifiers, Claimed
  <1> QED
    BY <1>3, <1>5, <1>10 DEF IInv

LEMMA AtClaim ==
  ASSUME IInv, NEW s \in Procs, proc[s].at \in {"claim", "notify"}
  PROVE  /\ proc[s] \in Reminding /\ proc[s].of \in Appts /\ appt[proc[s].of] # Absent
         /\ Ok(proc[s]) /\ proc[s].of \notin DOMAIN proc[s].rest
  BY Hands, Places DEF IInv, HandsInv, Ok, SweepOk, AsRead, Reminding

LEMMA ClaimKeepsIInv ==
  ASSUME IInv, NEW s \in Procs, Claim(s)
  PROVE  IInv'
  <1>1. /\ proc[s].at = "claim" /\ UNCHANGED <<now, reminders, lost, raced>>
        /\ proc[s] \in Reminding /\ appt[proc[s].of] # Absent /\ Ok(proc[s])
        /\ proc[s].of \notin DOMAIN proc[s].rest
    BY AtClaim DEF Claim
  <1>2. PICK v \in Reminding, a \in Appts : v = proc[s] /\ a = v.of
    BY <1>1 DEF Reminding
  <1>3. CASE /\ Unreminded(a)
             /\ appt' = [appt EXCEPT ![a].reminded = TRUE]
             /\ Step(s, [v EXCEPT !.at = "notify"])
    <2>1. PICK w : w = [v EXCEPT !.at = "notify"]
      OBVIOUS
    <2>2. w \in Reminding /\ w.at = "notify" /\ w.of = a /\ w.told = v.told
          /\ w.rest = v.rest /\ w.since = v.since
      BY <1>2, <2>1 DEF Reminding
    <2>3. w \in Process
      BY <1>1, <1>2, <2>2 DEF Process
    <2>4. Ok(w)
      BY <1>1, <1>2, <2>2 DEF Ok, BookOk, LoadOk, MoveOk, MarkOk, SweepOk
    <2>5. SameBookings
      BY <1>1, <1>2, <1>3, ReminderSet DEF IInv
    <2>6. Ok(w)'
      BY <1>1, <2>3, <2>4, <2>5, OkStays DEF IInv
    <2> QED
      BY <1>1, <1>2, <1>3, <2>1, <2>2, <2>3, <2>6, ClaimEnds
  <1>4. CASE Finish(s) /\ UNCHANGED appt
    <2>1. SameBookings
      BY <1>4 DEF SameBookings
    <2>2. PICK w \in Process : Step(s, w) /\ w.at # "notify" /\ Ok(w)'
      BY <1>1, <1>4, <2>1, FinishHands
    <2> QED
      BY <1>1, <1>4, <2>2, QuietStep
  <1> QED
    BY <1>2, <1>3, <1>4 DEF Claim

LEMMA ClaimThrowsKeepsIInv ==
  ASSUME IInv, NEW s \in Procs, ClaimThrows(s)
  PROVE  IInv'
  <1>1. /\ proc[s].at = "claim" /\ Finish(s) /\ UNCHANGED <<now, reminders, raced>>
        /\ proc[s].of \in Appts /\ appt[proc[s].of] # Absent
    BY AtClaim DEF ClaimThrows
  <1>2. PICK a \in Appts : a = proc[s].of
    BY <1>1
  <1>3. CASE UNCHANGED <<appt, lost>>
    <2>1. SameBookings
      BY <1>3 DEF SameBookings
    <2>2. PICK w \in Process : Step(s, w) /\ w.at # "notify" /\ Ok(w)'
      BY <1>1, <2>1, FinishHands
    <2> QED
      BY <1>1, <1>3, <2>2, QuietStep
  <1>4. CASE /\ Unreminded(a)
             /\ appt' = [appt EXCEPT ![a].reminded = TRUE]
             /\ lost' = [lost EXCEPT ![a] = @ + 1]
    <2>1. SameBookings
      BY <1>1, <1>2, <1>4, ReminderSet DEF IInv
    <2>2. PICK w \in Process : Step(s, w) /\ w.at # "notify" /\ Ok(w)'
      BY <1>1, <2>1, FinishHands
    <2> QED
      BY <1>1, <1>2, <1>4, <2>2, ClaimEnds
  <1> QED
    BY <1>2, <1>3, <1>4 DEF ClaimThrows

LEMMA NotifyKeepsIInv ==
  ASSUME IInv, NEW s \in Procs, Notify(s) \/ NotifyThrows(s)
  PROVE  IInv'
  <1>1. proc[s].at = "notify" /\ Finish(s) /\ UNCHANGED <<appt, now, raced>>
    BY DEF Notify, NotifyThrows
  <1>2. SameBookings
    BY <1>1 DEF SameBookings
  <1>3. PICK w \in Process : Step(s, w) /\ w.at # "notify" /\ Ok(w)'
    BY <1>1, <1>2, FinishHands
  <1>4. \/ reminders' = [reminders EXCEPT ![proc[s].of] = @ + 1] /\ lost' = lost
        \/ lost' = [lost EXCEPT ![proc[s].of] = @ + 1] /\ reminders' = reminders
    BY DEF Notify, NotifyThrows
  <1> QED
    BY <1>1, <1>3, <1>4, NotifyEnds

LEMMA CrashKeepsIInv ==
  ASSUME IInv, NEW s \in Procs, Crash(s)
  PROVE  IInv'
  <1>1. Step(s, Idle) /\ UNCHANGED <<appt, now, reminders, raced>>
    BY DEF Crash
  <1>2. CASE proc[s].at = "notify"
    BY <1>1, <1>2, IdleOk, NotifyEnds DEF Crash
  <1>3. CASE proc[s].at # "notify"
    BY <1>1, <1>3, IdleOk, QuietStep DEF Crash
  <1> QED
    BY <1>2, <1>3

\* Nothing depends on the clock but who is a candidate.
LEMMA TickKeepsIInv ==
  ASSUME IInv, UNCHANGED <<appt, proc, reminders, lost, raced>>, now' \in 0..MaxTime
  PROVE  IInv'
  BY DEF IInv, TypeOK, DoubleBookingIsARace, RemindersAccountedFor, HandsInv, Ok, BookOk, LoadOk,
         MoveOk, MarkOk, SweepOk, Blocks, AsRead, Holds, Meet, Allowed

LEMMA NextKeepsIInv == IInv /\ [Next]_vars => IInv'
  <1> SUFFICES ASSUME IInv, [Next]_vars PROVE IInv'
    OBVIOUS
  <1>1. CASE Tick
    BY <1>1, TickKeepsIInv, AppointmentsAssumption DEF Tick, IInv, TypeOK
  <1>2. ASSUME NEW p \in Procs, Create(p) PROVE IInv'
    BY <1>2, InsertKeepsIInv, BookKeepsIInv DEF Create
  <1>3. ASSUME NEW p \in Procs, Update(p) PROVE IInv'
    BY <1>3, CheckKeepsIInv, MoveKeepsIInv, ReadForMoveKeepsIInv DEF Update
  <1>4. ASSUME NEW p \in Procs, UpdateStatus(p) PROVE IInv'
    BY <1>4, MarkKeepsIInv, ReadForMarkKeepsIInv DEF UpdateStatus
  <1>5. ASSUME NEW p \in Procs, Abort(p) PROVE IInv'
    BY <1>5, AbortKeepsIInv
  <1>6. ASSUME NEW p \in Procs, Sweep(p) PROVE IInv'
    BY <1>6, StartSweepKeepsIInv, ClaimKeepsIInv, NotifyKeepsIInv, ClaimThrowsKeepsIInv,
       CrashKeepsIInv DEF Sweep
  <1>7. CASE UNCHANGED vars
    BY <1>7, TickKeepsIInv DEF vars, IInv, TypeOK
  <1> QED
    BY <1>1, <1>2, <1>3, <1>4, <1>5, <1>6, <1>7 DEF Next

\* The strengthened invariant, for any appointments, assignees and processes.
THEOREM AppointmentsInvariant == Spec => []IInv
  BY InitIInv, NextKeepsIInv, PTL DEF Spec

\* The rows, what the processes hold and the accounts keep their types; no sweep
\* holds a row twice.
THEOREM AppointmentsTypeCorrect == Spec => []TypeOK
  <1>1. IInv => TypeOK
    BY DEF IInv
  <1> QED
    BY <1>1, AppointmentsInvariant, PTL

\* Two bookings of one assignee overlap only if a request that had not seen the
\* one wrote the other: create, reschedule and confirm have no other way to do it.
THEOREM DoubleBookingsAreRaces == Spec => []DoubleBookingIsARace
  <1>1. IInv => DoubleBookingIsARace
    BY DEF IInv
  <1> QED
    BY <1>1, AppointmentsInvariant, PTL

\* The guarded claim makes the reminder one-shot: a claim has one notification, one
\* failure, or one sweep that owes it.
THEOREM RemindersAreOneShot == Spec => []RemindersAccountedFor
  <1>1. IInv => RemindersAccountedFor
    BY DEF IInv
  <1> QED
    BY <1>1, AppointmentsInvariant, PTL

\* A status outside the table of transitions, and a reminder that is no longer
\* true, come only from a request or a sweep whose appointment was written since
\* it was read.
THEOREM MistakesAreStale == Spec => OnlyTheOvertakenErr
  <1>1. ASSUME IInv, NEW r \in Procs, Mark(r), proc[r].of \notin proc[r].since
        PROVE  proc[r].to \in TRANSITIONS[appt[proc[r].of].status]
    <2>1. Ok(proc[r]) /\ proc[r].at = "mark"
      BY <1>1 DEF IInv, HandsInv, Mark
    <2> QED
      BY <1>1, <2>1 DEF Ok, MarkOk, Allowed
  <1>2. ASSUME IInv, NEW s \in Procs, Notify(s), proc[s].of \notin proc[s].since
        PROVE  Holds(proc[s].of) /\ appt[proc[s].of].window.start = proc[s].told
    <2>1. Ok(proc[s]) /\ proc[s].at = "notify"
      BY <1>2 DEF IInv, HandsInv, Notify
    <2> QED
      BY <1>2, <2>1 DEF Ok, SweepOk, AsRead
  <1>3. IInv => [/\ \A r \in Procs :
                      (Mark(r) /\ proc[r].of \notin proc[r].since)
                        => proc[r].to \in TRANSITIONS[appt[proc[r].of].status]
                 /\ \A s \in Procs :
                      (Notify(s) /\ proc[s].of \notin proc[s].since)
                        => Holds(proc[s].of) /\ appt[proc[s].of].window.start = proc[s].told]_vars
    BY <1>1, <1>2
  <1> QED
    BY <1>3, AppointmentsInvariant, PTL DEF OnlyTheOvertakenErr
=============================================================================
