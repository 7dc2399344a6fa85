---------------------------- MODULE Calculations ----------------------------
(***************************************************************************)
(* Calculations that need no other process (prices, run dates, chunks,     *)
(* forecasts) and the requests that only read (answers, lists, snapshots). *)
(* Each behaviour goes through one of them, named by turn.                 *)
(***************************************************************************)
EXTENDS Totals, Calendar, Chunker, Forecast, Answers, Listings, Snapshots

CONSTANTS MaxLines, MaxSentences   \* bounds: lines of an invoice, sentences of a text

VARIABLE turn

Turns == {"totals", "calendar", "chunks", "forecast", "answers", "listings", "snapshots"}

\* The variables of every turn but t stay as they are.
Only(t) ==
  /\ turn = t /\ UNCHANGED turn
  /\ t # "totals" => UNCHANGED totalsVars
  /\ t # "calendar" => UNCHANGED calendarVars
  /\ t # "chunks" => UNCHANGED chunkVars
  /\ t # "forecast" => UNCHANGED rows
  /\ t # "answers" => UNCHANGED answerVars
  /\ t # "listings" => UNCHANGED listVars
  /\ t # "snapshots" => UNCHANGED snapshotVars

calculationVars ==
  <<turn, totalsVars, calendarVars, chunkVars, rows, answerVars, listVars, snapshotVars>>

\* The schedules and the lists are told apart only where they matter.
CalculationsInit ==
  /\ turn \in Turns
  /\ TotalsInit /\ CalendarInit /\ ChunksInit /\ ForecastInit /\ AnswersInit
  /\ SnapshotsInit
  /\ turn # "calendar" =>
       plan = CHOOSE p \in [start : Starts, cadence : Cadences, interval : Intervals] : TRUE
  /\ ListingsInit
  /\ turn # "listings" => list = (CHOOSE l \in Lists : TRUE) /\ Stored = {} /\ matches = {}

CalculationsNext ==
  \/ Only("totals") /\ priced < MaxLines /\ computeInvoiceTotals
  \/ Only("calendar") /\ AdvancePastNow
  \/ Only("chunks") /\ taken < MaxSentences /\ chunkText
  \/ Only("forecast") /\ Pay
  \/ Only("answers") /\ AnswersNext
  \/ Only("listings") /\ ListingsNext
  \/ Only("snapshots") /\ SnapshotsNext

CalculationsSpec == CalculationsInit /\ [][CalculationsNext]_calculationVars
=============================================================================
