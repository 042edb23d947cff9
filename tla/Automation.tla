------------------------------ MODULE Automation ------------------------------
(***************************************************************************)
(* Recurring tasks: schedules, the loop that dispatches them and the       *)
(* administrators who edit them meanwhile (internal/automation/scheduler.go *)
(* and internal/storage/sqlite/automation.go); with them the notifications *)
(* and the skill proposals of the same file.                               *)
(*                                                                         *)
(* Time passes in minutes, also while the controller is down.              *)
(***************************************************************************)
EXTENDS Naturals, FiniteSets

CONSTANTS
  Schedules, Owners,  \* schedules and the projects they belong to
  Order,              \* Order[s]: where the ID of s sorts
  Plans,              \* what administrators ask for: intervals and windows
  Editors,            \* administrators who edit at the same time
  Skills,             \* proposals of the operator assistant
  Day,                \* length of a day
  MaxMinute,          \* bound on time
  MaxEdits            \* bound on edits of schedules and projects

Plan == [project : Owners, interval : 1 .. Day, start : 0 .. Day - 1, end : 0 .. Day - 1]

ASSUME AutomationAssumption ==
  /\ Order \in [Schedules -> Nat] /\ \A s, t \in Schedules : Order[s] = Order[t] => s = t
  /\ Plans \subseteq Plan
  /\ Day \in Nat \ {0} /\ {MaxMinute, MaxEdits} \subseteq Nat

VARIABLES
  schedule,  \* the table
  enabled,   \* the projects that are enabled
  now,
  lastRun,   \* lastRun[s]: when s last had a run (kept in schedule_runs)
  editing,   \* editing[a]: the row an administrator has on the screen
  edits,
  notices,   \* schedules with an unread notification of a run
  skill

automationVars == <<schedule, enabled, now, lastRun, editing, edits, notices, skill>>

Schedule == [plan : Plan, on : BOOLEAN, next : Nat, version : Nat]

NoEdit == [of |-> "none"]

AutomationTypeOK ==
  /\ schedule \in [Schedules -> Schedule]
  /\ enabled \subseteq Owners
  /\ now \in 0 .. MaxMinute
  /\ lastRun \in [Schedules -> 0 .. MaxMinute]
  /\ notices \subseteq Schedules
  /\ skill \in [Skills -> {"none", "proposed", "approved_inert", "rejected"}]

(* Saved at minute 0, without a first run of their own: one interval later. *)
AutomationInit ==
  /\ schedule \in
       [Schedules -> {[plan |-> p, on |-> TRUE, next |-> p.interval, version |-> 1] : p \in Plans}]
  /\ enabled = Owners /\ now = 0
  /\ lastRun = [s \in Schedules |-> 0]
  /\ editing = [a \in Editors |-> NoEdit] /\ edits = 0
  /\ notices = {}
  /\ skill = [k \in Skills |-> "none"]

-----------------------------------------------------------------------------
(* Dispatch *)

due(s) == schedule[s].on /\ schedule[s].next <= now

before(s, t) ==
  \/ schedule[s].next < schedule[t].next
  \/ schedule[s].next = schedule[t].next /\ Order[s] < Order[t]

withinScheduleWindow(p) ==
  LET minute == now % Day IN
  \/ p.start = p.end
  \/ p.start < p.end /\ minute \in p.start .. p.end - 1
  \/ p.start > p.end /\ (minute >= p.start \/ minute < p.end)

(* The first occurrence after this minute.                                  *)
following(s) ==
  LET i == schedule[s].plan.interval  d == schedule[s].next IN
  d + i * ((now - d) \div i + 1)

(* Mutant of advanced: a run that was skipped stays due.                    *)
advancedWhenRun(s, run) ==
  IF run THEN [schedule EXCEPT ![s].next = following(s), ![s].version = @ + 1] ELSE schedule

advanced(s, run) ==
  [schedule EXCEPT ![s].next = following(s), ![s].version = @ + 1]

(* One transaction: a run of a disabled project fails it, and nothing is    *)
(* kept; the loop waits for its next tick and finds the same row first.     *)
DispatchDueSchedule ==
  \E s \in Schedules :
    LET run == withinScheduleWindow(schedule[s].plan) IN
    /\ due(s) /\ \A t \in Schedules \ {s} : due(t) => before(s, t)
    /\ run => schedule[s].plan.project \in enabled
    /\ schedule' = advanced(s, run)
    /\ lastRun' = [lastRun EXCEPT ![s] = now]
    /\ notices' = notices \union {s}
    /\ UNCHANGED <<enabled, now, editing, edits, skill>>

Tick ==
  /\ now < MaxMinute
  /\ now' = now + 1
  /\ UNCHANGED <<schedule, enabled, lastRun, editing, edits, notices, skill>>

-----------------------------------------------------------------------------
(* People *)

Open(a) ==
  \E s \in Schedules :
    /\ editing[a] = NoEdit /\ edits < MaxEdits
    /\ editing' = [editing EXCEPT ![a] = [of |-> s, row |-> schedule[s]]]
    /\ edits' = edits + 1
    /\ UNCHANGED <<schedule, enabled, now, lastRun, notices, skill>>

(* Mutant of unchangedRow: a request carries no version.                     *)
unchangedRowAlways(s, row) == row.version <= schedule[s].version

unchangedRow(s, row) == schedule[s].version = row.version

(* A request carries the whole row: the caller, who read it earlier, sends  *)
(* its next run back and changes the plan or the switch.                    *)
SaveSchedule(a) ==
  /\ editing[a] # NoEdit
  /\ LET s == editing[a].of  row == editing[a].row IN
     \/ /\ unchangedRow(s, row)
        /\ \E to \in {[row EXCEPT !.on = ~@]} \union {[row EXCEPT !.plan = p] : p \in Plans \ {row.plan}} :
             schedule' = [schedule EXCEPT ![s] = [to EXCEPT !.version = @ + 1]]
     \/ ~unchangedRow(s, row) /\ UNCHANGED schedule
  /\ editing' = [editing EXCEPT ![a] = NoEdit]
  /\ UNCHANGED <<enabled, now, lastRun, edits, notices, skill>>

UpsertProject(p) ==
  /\ edits < MaxEdits /\ edits' = edits + 1
  /\ enabled' = IF p \in enabled THEN enabled \ {p} ELSE enabled \union {p}
  /\ UNCHANGED <<schedule, now, lastRun, editing, notices, skill>>

AcknowledgeNotification(s) ==
  /\ s \in notices
  /\ notices' = notices \ {s}
  /\ UNCHANGED <<schedule, enabled, now, lastRun, editing, edits, skill>>

CreateSkillProposal(k) ==
  /\ skill[k] = "none"
  /\ skill' = [skill EXCEPT ![k] = "proposed"]
  /\ UNCHANGED <<schedule, enabled, now, lastRun, editing, edits, notices>>

ReviewSkillProposal(k) ==
  /\ skill[k] = "proposed"
  /\ \E status \in {"approved_inert", "rejected"} : skill' = [skill EXCEPT ![k] = status]
  /\ UNCHANGED <<schedule, enabled, now, lastRun, editing, edits, notices>>

AutomationNext ==
  \/ DispatchDueSchedule \/ Tick
  \/ \E a \in Editors : Open(a) \/ SaveSchedule(a)
  \/ \E p \in Owners : UpsertProject(p)
  \/ \E s \in Schedules : AcknowledgeNotification(s)
  \/ \E k \in Skills : CreateSkillProposal(k) \/ ReviewSkillProposal(k)

(* The dispatcher polls for as long as the controller runs.                 *)
AutomationFairness == WF_automationVars(DispatchDueSchedule)

AutomationSpec == AutomationInit /\ [][AutomationNext]_automationVars /\ AutomationFairness

-----------------------------------------------------------------------------
(* A due schedule is dispatched or skipped, unless a run of a disabled      *)
(* project sorts before it: that one blocks the dispatcher for all.         *)
DueIsDispatched ==
  \A s \in Schedules :
    due(s) ~> (\/ ~due(s)
               \/ \E t \in Schedules :
                    /\ due(t) /\ (t = s \/ before(t, s))
                    /\ schedule[t].plan.project \notin enabled)

(* An occurrence of a schedule is run or skipped once: what is next comes    *)
(* after the last run, although an administrator sends back the next run of *)
(* a row read before it (SaveSchedule, DispatchDueSchedule).              *)
OccurrencesRunOnce == \A s \in Schedules : lastRun[s] < schedule[s].next

=============================================================================
