----------------------------- MODULE Appointments -----------------------------
(***************************************************************************)
(* Appointments and their reminders (modules/appointments).  A request     *)
(* checks for conflicts, or reads a status, and writes some awaits later   *)
(* by id alone; a sweep claims reminderSentAt with a guarded updateMany    *)
(* and only then writes the notification.                                  *)
(***************************************************************************)
EXTENDS Integers, FiniteSets

CONSTANTS
  Appts,           \* appointments of one organization
  Assignees,       \* what a request may name as assignee
  Nobody,          \* stands for no assignee
  Windows,         \* the [startAt, endAt) a request may ask for
  Asked,           \* the statuses that requests ask for
  Procs,           \* processes: each serves a request or runs a sweep
  BatchSize,       \* REMINDER_SWEEP_BATCH_SIZE
  Ahead,           \* REMINDER_WINDOW_HOURS
  MaxTime          \* bound of the clock

Statuses == {"SCHEDULED", "CONFIRMED", "CANCELLED", "COMPLETED", "NO_SHOW"}

ASSUME AppointmentsAssumption ==
  /\ IsFiniteSet(Appts) /\ IsFiniteSet(Procs)
  /\ Windows \subseteq {w \in [start : Nat, end : Nat] : w.start < w.end}
  /\ Asked \subseteq Statuses \ {"SCHEDULED"}
  /\ BatchSize \in Nat \ {0} /\ Ahead \in Nat /\ MaxTime \in Nat

VARIABLES
  appt,        \* rows of appointments
  now,         \* the clock
  proc,        \* what a request or a sweep is about to do, from what it read;
               \* since: the appointments that others wrote after it read
  reminders,   \* notifications raised for an appointment
  lost,        \* claims of it whose notification failed
  raced        \* pairs whose last booking was written by a request that had
               \* not seen the other's

vars == <<appt, now, proc, reminders, lost, raced>>

HOLDING_STATUSES == {"SCHEDULED", "CONFIRMED"}

TRANSITIONS == [SCHEDULED |-> {"CONFIRMED", "CANCELLED", "COMPLETED", "NO_SHOW"},
                CONFIRMED |-> {"CANCELLED", "COMPLETED", "NO_SHOW"},
                CANCELLED |-> {}, COMPLETED |-> {}, NO_SHOW |-> {}]

Absent == [status |-> "ABSENT"]
Row == [status : Statuses, window : Windows, assignee : Assignees,
        reminded : BOOLEAN]

Idle == [at |-> "idle"]
Booking == [at : {"insert"}, to : Windows, assignee : Assignees,
            since : SUBSET Appts]
Loaded == [at : {"check"}, of : Appts, to : Windows]
Moving == [at : {"write"}, of : Appts, to : Windows, since : SUBSET Appts]
Marking == [at : {"mark"}, of : Appts, to : Statuses, since : SUBSET Appts]

\* A sweep has the start times it read of the rows of its batch.
Starts == {w.start : w \in Windows}
Reminding == [at : {"claim", "notify"}, of : Appts, told : Starts,
              rest : UNION {[S -> Starts] : S \in SUBSET Appts}, since : SUBSET Appts]

TypeOK ==
  /\ appt \in [Appts -> {Absent} \cup Row]
  /\ now \in 0..MaxTime
  /\ proc \in [Procs -> {Idle} \cup Booking \cup Loaded \cup Moving \cup Marking
                         \cup {w \in Reminding : w.of \notin DOMAIN w.rest}]
  /\ reminders \in [Appts -> Nat]
  /\ lost \in [Appts -> Nat]
  /\ raced \subseteq SUBSET Appts

Init ==
  /\ appt = [a \in Appts |-> Absent]
  /\ now = 0
  /\ proc = [p \in Procs |-> Idle]
  /\ reminders = [a \in Appts |-> 0]
  /\ lost = [a \in Appts |-> 0]
  /\ raced = {}

-----------------------------------------------------------------------------
Tick == now < MaxTime /\ now' = now + 1 /\ UNCHANGED <<appt, proc, reminders, lost, raced>>

Holds(a) == appt[a].status \in HOLDING_STATUSES

\* Mutant: only bookings that lie within the window are found.
Contains(v, w) == v.start >= w.start /\ v.end <= w.end
Overlaps(v, w) == v.start < w.end /\ v.end > w.start

\* assertNoConflict, which is asked only about somebody.
Free(assignee, window, others) ==
  assignee # Nobody =>
    \A b \in others : Holds(b) /\ appt[b].assignee = assignee
                        => ~Overlaps(appt[b].window, window)

Step(p, next) == proc' = [proc EXCEPT ![p] = next]

\* p has written a, and the others have read what is out of date.
Wrote(p, next, a) ==
  proc' = [q \in Procs |-> IF q = p THEN next
                           ELSE IF proc[q] = Idle \/ proc[q].at = "check" THEN proc[q]
                           ELSE [proc[q] EXCEPT !.since = @ \cup {a}]]

PairsOf(a, others) == {{a, b} : b \in others \ {a}}

\* create
Book(r, assignee, window) ==
  /\ proc[r] = Idle
  /\ Free(assignee, window, Appts)
  /\ Step(r, [at |-> "insert", to |-> window, assignee |-> assignee, since |-> {}])
  /\ UNCHANGED <<appt, now, reminders, lost, raced>>

Insert(r) ==
  /\ proc[r].at = "insert"
  /\ \E a \in Appts :
       /\ appt[a] = Absent
       /\ appt' = [appt EXCEPT ![a] =
            [status |-> "SCHEDULED", window |-> proc[r].to, assignee |-> proc[r].assignee,
             reminded |-> FALSE]]
       /\ Wrote(r, Idle, a)
       /\ raced' = raced \cup PairsOf(a, proc[r].since)
  /\ UNCHANGED <<now, reminders, lost>>

\* update, with a new startAt or endAt
ReadForMove(r, a, window) ==
  /\ proc[r] = Idle
  /\ Holds(a)
  /\ Step(r, [at |-> "check", of |-> a, to |-> window])
  /\ UNCHANGED <<appt, now, reminders, lost, raced>>

Check(r) ==
  /\ proc[r].at = "check"
  /\ Free(appt[proc[r].of].assignee, proc[r].to, Appts \ {proc[r].of})
  /\ Step(r, [at |-> "write", of |-> proc[r].of, to |-> proc[r].to, since |-> {}])
  /\ UNCHANGED <<appt, now, reminders, lost, raced>>

Move(r) ==
  /\ proc[r].at = "write"
  /\ LET a == proc[r].of IN
       /\ appt' = [appt EXCEPT ![a].window = proc[r].to]
       /\ Wrote(r, Idle, a)
       /\ raced' = {pair \in raced : a \notin pair} \cup PairsOf(a, proc[r].since)
  /\ UNCHANGED <<now, reminders, lost>>

\* Mutant: only the repeated status is refused.
OtherThan(a, status) == appt[a].status # status
Allowed(a, status) == status \in TRANSITIONS[appt[a].status]

\* updateStatus
ReadForMark(r, a, status) ==
  /\ proc[r] = Idle
  /\ appt[a] # Absent
  /\ Allowed(a, status)
  /\ Step(r, [at |-> "mark", of |-> a, to |-> status, since |-> {}])
  /\ UNCHANGED <<appt, now, reminders, lost, raced>>

Mark(r) ==
  /\ proc[r].at = "mark"
  /\ LET a == proc[r].of IN
       /\ appt' = [appt EXCEPT ![a].status = proc[r].to]
       /\ Wrote(r, Idle, a)
       /\ raced' = IF a \in proc[r].since THEN raced \cup PairsOf(a, proc[r].since) ELSE raced
  /\ UNCHANGED <<now, reminders, lost>>

\* The check finds a conflict, a query throws, or the process dies.
Abort(r) ==
  /\ proc[r].at \in {"insert", "check", "write", "mark"}
  /\ Step(r, Idle)
  /\ UNCHANGED <<appt, now, reminders, lost, raced>>

-----------------------------------------------------------------------------
\* The reminder sweep.
Candidates ==
  {a \in Appts : /\ Holds(a) /\ ~appt[a].reminded
                 /\ appt[a].window.start \in now..(now + Ahead)}

Batches ==
  {S \in (SUBSET Candidates) \ {{}} :
     /\ Cardinality(S) = BatchSize \/ (S = Candidates /\ Cardinality(S) < BatchSize)
     /\ \A a \in S, b \in Candidates \ S : appt[a].window.start <= appt[b].window.start}

Without(rows, a) == [b \in DOMAIN rows \ {a} |-> rows[b]]

\* What follows when rows are left: the soonest of them is next.
GoOn(rows, since) ==
  IF DOMAIN rows = {} THEN {Idle}
  ELSE {[at |-> "claim", of |-> a, told |-> rows[a], rest |-> Without(rows, a), since |-> since] :
          a \in {b \in DOMAIN rows : \A c \in DOMAIN rows : rows[b] <= rows[c]}}

Finish(s) == \E next \in GoOn(proc[s].rest, proc[s].since) : Step(s, next)

StartSweep(s) ==
  /\ proc[s] = Idle
  /\ \E S \in Batches :
       \E next \in GoOn([a \in S |-> appt[a].window.start], {}) : Step(s, next)
  /\ UNCHANGED <<appt, now, reminders, lost, raced>>

\* updateMany where reminderSentAt is null.
\* Mutant: by id alone.
AnyRow(a) == TRUE
Unreminded(a) == ~appt[a].reminded

Claim(s) ==
  /\ proc[s].at = "claim"
  /\ LET a == proc[s].of IN
       \/ /\ Unreminded(a)
          /\ appt' = [appt EXCEPT ![a].reminded = TRUE]
          /\ Step(s, [proc[s] EXCEPT !.at = "notify"])
       \/ /\ ~Unreminded(a)
          /\ Finish(s)
          /\ UNCHANGED appt
  /\ UNCHANGED <<now, reminders, lost, raced>>

\* notification.createMany
Notify(s) ==
  /\ proc[s].at = "notify"
  /\ reminders' = [reminders EXCEPT ![proc[s].of] = @ + 1]
  /\ Finish(s)
  /\ UNCHANGED <<appt, now, lost, raced>>

\* The claim throws, applied or not, and the loop goes on.
ClaimThrows(s) ==
  /\ proc[s].at = "claim"
  /\ LET a == proc[s].of IN
       \/ UNCHANGED <<appt, lost>>
       \/ /\ Unreminded(a)
          /\ appt' = [appt EXCEPT ![a].reminded = TRUE]
          /\ lost' = [lost EXCEPT ![a] = @ + 1]
  /\ Finish(s)
  /\ UNCHANGED <<now, reminders, raced>>

\* So does the notification, written or not.
NotifyThrows(s) ==
  /\ proc[s].at = "notify"
  /\ \/ /\ lost' = [lost EXCEPT ![proc[s].of] = @ + 1]
        /\ UNCHANGED reminders
     \/ /\ reminders' = [reminders EXCEPT ![proc[s].of] = @ + 1]
        /\ UNCHANGED lost
  /\ Finish(s)
  /\ UNCHANGED <<appt, now, raced>>

\* The process dies.
Crash(s) ==
  /\ proc[s].at \in {"claim", "notify"}
  /\ lost' = IF proc[s].at = "notify" THEN [lost EXCEPT ![proc[s].of] = @ + 1] ELSE lost
  /\ Step(s, Idle)
  /\ UNCHANGED <<appt, now, reminders, raced>>

Create(r) == Insert(r) \/ \E assignee \in Assignees, w \in Windows : Book(r, assignee, w)
Update(r) == Check(r) \/ Move(r) \/ \E a \in Appts, w \in Windows : ReadForMove(r, a, w)
UpdateStatus(r) == Mark(r) \/ \E a \in Appts, status \in Asked : ReadForMark(r, a, status)
Sweep(s) ==
  \/ StartSweep(s) \/ Claim(s) \/ Notify(s)
  \/ ClaimThrows(s) \/ NotifyThrows(s) \/ Crash(s)

Next ==
  \/ Tick
  \/ \E p \in Procs : Create(p) \/ Update(p) \/ UpdateStatus(p) \/ Abort(p) \/ Sweep(p)

Spec == Init /\ [][Next]_vars

-----------------------------------------------------------------------------
\* The check cannot keep two requests from booking somebody twice, but nothing else
\* books twice: of two appointments that overlap, one was last booked (inserted, moved,
\* or brought back to life by a late confirm) by a request that had checked before
\* the other was written.
DoubleBookingIsARace ==
  \A a, b \in Appts :
    (/\ a # b /\ Holds(a) /\ Holds(b)
     /\ appt[a].assignee # Nobody /\ appt[a].assignee = appt[b].assignee
     /\ Overlaps(appt[a].window, appt[b].window))
      => {a, b} \in raced

\* reminderSentAt is one-shot: however many sweeps meet and whatever moves the
\* appointment, a claim has one notification, or lost it to a failure, or has a sweep
\* that is about to write it; and there is none without a claim.
RemindersAccountedFor ==
  \A a \in Appts :
    reminders[a] + lost[a]
      + Cardinality({s \in Procs : proc[s].at = "notify" /\ proc[s].of = a})
    = IF appt[a] # Absent /\ appt[a].reminded THEN 1 ELSE 0

\* Who is not overtaken makes no mistake: a status that leaves the table of
\* transitions, and a reminder of an appointment that is off or has been
\* moved, come from a request or a sweep that read before another wrote.
OnlyTheOvertakenErr ==
  [][/\ \A r \in Procs :
          (Mark(r) /\ proc[r].of \notin proc[r].since)
            => proc[r].to \in TRANSITIONS[appt[proc[r].of].status]
     /\ \A s \in Procs :
          (Notify(s) /\ proc[s].of \notin proc[s].since)
            => Holds(proc[s].of) /\ appt[proc[s].of].window.start = proc[s].told]_vars
=============================================================================
