------------------------- MODULE AutomationReceipts -------------------------
(***************************************************************************)
(* The receipts of automation sessions.  scripts/bearbrowser-playwright.sh *)
(* asks the policy engine, creates a receipt, runs the session and updates *)
(* the receipt; anyone may update it meanwhile, to revoke it for instance. *)
(* A receipt is in a file of its own, which an update reads, empties and   *)
(* writes, and in receipts.jsonl, to which each version is appended.  The  *)
(* programs take no lock, may be killed, and may fail to write.            *)
(*                                                                         *)
(* A launcher runs one session: its receipt has its name.                  *)
(***************************************************************************)
EXTENDS PolicyEngine, FiniteSets

CONSTANTS
    Launcher,       \* sessions launched
    Caller,         \* those who ask the engine themselves
    Asks,           \* and what they ask
    Updater,        \* runs of update-receipt that no launcher starts
    Given,          \* the statuses that they give
    Deployments     \* those that may run together (a bound)

ASSUME ProcessAssumption ==
    /\ Launcher \cup Caller \subseteq Process
    /\ Launcher \cap Caller = {}        \* a launcher's engine is its own
ASSUME UpdaterAssumption == Updater \cap Launcher = {}
ASSUME DeploymentsAssumption == Deployments \subseteq SUBSET (Process \cup Updater)

VARIABLES
    deployed,           \* those that run together
    file, log,          \* the receipt files, and receipts.jsonl
    lpc, mode, given,   \* of each launcher: where it is, its profile, whether
                        \* its caller gave it a decision
    upc, of, copy,      \* of each update: where it is, its receipt, the copy it read
    disturbed           \* history: the receipts that two programs wrote at once,
                        \* or that one of them failed to write

launchVars == <<lpc, mode, given>>
updateVars == <<upc, of, copy>>
vars == <<deployed, engineVars, faults, file, log, launchVars, updateVars, disturbed>>

-----------------------------------------------------------------------------
Modes == {"agent-runtime", "human-secure"}
Update == Launcher \cup Updater
UpdateStatuses == {"ended", "failed", "revoked", "orphaned", "denied"}
ASSUME GivenAssumption == Given \subseteq UpdateStatuses

\* decision is the decision it refers to, 0 for one that the caller gave.
Receipt(status, decision) ==
    [status |-> status, decision |-> decision, revokedAt |-> FALSE, terminatedAt |-> FALSE]

NoFile == Receipt("missing", 0)
EmptyFile == Receipt("empty", 0)

\* Mutant: the receipt is built anew.
StampOnly(r, status) ==
    [Receipt(status, r.decision) EXCEPT
        !.revokedAt = (status = "revoked"), !.terminatedAt = (status \in {"ended", "failed"})]

\* The new status, whatever the old one was; earlier stamps stay.
Stamp(r, status) ==
    [r EXCEPT !.status = status,
              !.revokedAt = @ \/ status = "revoked",
              !.terminatedAt = @ \/ status \in {"ended", "failed"}]

\* latest_receipts of the sidecar, for one receipt.
Versions(l) == {i \in DOMAIN log : log[i].id = l}
Latest(l) == {log[i].receipt : i \in {j \in Versions(l) : \A k \in Versions(l) : k <= j}}

Writing == {"open", "write", "log"}
Updating(l) == {u \in Update : of[u] = l /\ upc[u] \in Writing}

-----------------------------------------------------------------------------
Init ==
    /\ deployed \in Deployments
    /\ EngineInit
    /\ faults = 0
    /\ file = [l \in Launcher |-> NoFile]
    /\ log = <<>>
    /\ lpc = [l \in Launcher |-> "idle"]
    /\ mode = [l \in Launcher |-> "none"]
    /\ given = [l \in Launcher |-> FALSE]
    /\ upc = [u \in Update |-> "idle"]
    /\ of = [u \in Update |-> u]
    /\ copy = [u \in Update |-> NoFile]
    /\ disturbed = {}

GotoL(l, from, to) ==
    /\ lpc[l] = from
    /\ lpc' = [lpc EXCEPT ![l] = to]

AppendLog(l, r) == log' = Append(log, [id |-> l, receipt |-> r])

-----------------------------------------------------------------------------
(* The launcher.                                                           *)

\* BEARBROWSER_POLICY_DECISION_ID is taken as it is, or the engine is asked.
Launch(l, m) ==
    /\ mode' = [mode EXCEPT ![l] = m]
    /\ \/ /\ GotoL(l, "idle", "granted")
          /\ given' = [given EXCEPT ![l] = TRUE]
          /\ UNCHANGED engineVars
       \/ /\ GotoL(l, "idle", "asking")
          /\ AskEngine(l, [NoAsk EXCEPT !.action = "run_automation", !.profile = m])
          /\ UNCHANGED given
    /\ UNCHANGED <<faults, file, log, updateVars, disturbed>>

\* Mutant: only a denial stops it.
HeldIsGranted(l) ==
    /\ epc[l] = "exited"
    /\ GotoL(l, "asking", IF answer[l].code = 3 \/ answer[l].warned THEN "denied" ELSE "granted")
    /\ UNCHANGED <<engineVars, faults, file, log, mode, given, updateVars, disturbed>>

\* The exit code decides; a warning makes the output no JSON, so that no
\* identifier is found in it.
ReadAnswer(l) ==
    /\ epc[l] = "exited"
    /\ GotoL(l, "asking",
          CASE answer[l].code = 3 -> "denied"
            [] answer[l].code = 2 -> "held"
            [] answer[l].code = 1 -> "error"
            [] OTHER -> IF answer[l].warned THEN "error" ELSE "granted")
    /\ UNCHANGED <<engineVars, faults, file, log, mode, given, updateVars, disturbed>>

\* node and playwright are there, or not.
CheckTools(l) ==
    /\ \E to \in {"create", "error"} : GotoL(l, "granted", to)
    /\ UNCHANGED <<engineVars, faults, file, log, mode, given, updateVars, disturbed>>

\* create-receipt: the file is made, then written, then the log.
OpenReceipt(l) ==
    /\ GotoL(l, "create", "creating")
    /\ file' = [file EXCEPT ![l] = EmptyFile]
    /\ UNCHANGED <<engineVars, faults, log, mode, given, updateVars, disturbed>>

NewReceipt(l) == Receipt("active", answer[l].of)

WriteReceipt(l) ==
    /\ GotoL(l, "creating", "logging")
    /\ file' = [file EXCEPT ![l] = NewReceipt(l)]
    /\ UNCHANGED <<engineVars, faults, log, mode, given, updateVars, disturbed>>

LogReceipt(l) ==
    /\ GotoL(l, "logging", "run")
    /\ AppendLog(l, NewReceipt(l))
    /\ UNCHANGED <<engineVars, faults, file, mode, given, updateVars, disturbed>>

CreateFails(l) ==
    /\ Fault
    /\ \E at \in {"create", "creating", "logging"} : GotoL(l, at, "error")
    /\ disturbed' = disturbed \cup {l}
    /\ UNCHANGED <<engineVars, file, log, mode, given, updateVars>>

\* Mutant: a failed session is not recorded.
OnlyEnded(l) ==
    /\ \/ GotoL(l, "run", "ended")
       \/ GotoL(l, "run", "over")
    /\ UNCHANGED <<engineVars, faults, file, log, mode, given, updateVars, disturbed>>

\* node exits.
SessionEnds(l) ==
    /\ \E status \in {"ended", "failed"} : GotoL(l, "run", status)
    /\ UNCHANGED <<engineVars, faults, file, log, mode, given, updateVars, disturbed>>

\* update-receipt is run; that it fails is only warned of.
Finish(l) ==
    /\ upc[l] \in {"done", "failed"}
    /\ GotoL(l, "updating", "over")
    /\ UNCHANGED <<engineVars, faults, file, log, mode, given, updateVars, disturbed>>

-----------------------------------------------------------------------------
(* update-receipt.                                                         *)

\* The file is read; it fails on one that is missing or that is empty.
ReadReceipt(u, l, status) ==
    /\ upc[u] = "idle"
    /\ of' = [of EXCEPT ![u] = l]
    /\ IF file[l].status \in {"missing", "empty"}
       THEN /\ upc' = [upc EXCEPT ![u] = "failed"]
            /\ UNCHANGED <<copy, disturbed>>
       ELSE /\ upc' = [upc EXCEPT ![u] = "open"]
            /\ copy' = [copy EXCEPT ![u] = Stamp(file[l], status)]
            /\ disturbed' = IF Updating(l) # {} \/ lpc[l] = "logging"
                            THEN disturbed \cup {l} ELSE disturbed
    /\ UNCHANGED <<engineVars, faults, file, log, mode, given>>

UpdateByLauncher(l) ==
    \E status \in {"ended", "failed"} :
        /\ GotoL(l, status, "updating")
        /\ ReadReceipt(l, l, status)

UpdateByOther(u) ==
    /\ \E l \in Launcher \cap deployed, status \in Given : ReadReceipt(u, l, status)
    /\ UNCHANGED lpc

Truncate(u) ==
    /\ upc[u] = "open"
    /\ upc' = [upc EXCEPT ![u] = "write"]
    /\ file' = [file EXCEPT ![of[u]] = EmptyFile]
    /\ UNCHANGED <<engineVars, faults, log, launchVars, of, copy, disturbed>>

WriteBack(u) ==
    /\ upc[u] = "write"
    /\ upc' = [upc EXCEPT ![u] = "log"]
    /\ file' = [file EXCEPT ![of[u]] = copy[u]]
    /\ UNCHANGED <<engineVars, faults, log, launchVars, of, copy, disturbed>>

\* Mutant: the log keeps the version that was read.
LogOldVersion(u) ==
    /\ upc[u] = "log"
    /\ upc' = [upc EXCEPT ![u] = "done"]
    /\ AppendLog(of[u], [copy[u] EXCEPT !.status = "active"])
    /\ UNCHANGED <<engineVars, faults, file, launchVars, of, copy, disturbed>>

LogUpdate(u) ==
    /\ upc[u] = "log"
    /\ upc' = [upc EXCEPT ![u] = "done"]
    /\ AppendLog(of[u], copy[u])
    /\ UNCHANGED <<engineVars, faults, file, launchVars, of, copy, disturbed>>

UpdateFails(u) ==
    /\ upc[u] \in Writing
    /\ Fault
    /\ upc' = [upc EXCEPT ![u] = "failed"]
    /\ disturbed' = disturbed \cup {of[u]}
    /\ UNCHANGED <<engineVars, file, log, launchVars, of, copy>>

\* A launcher is killed with the processes it has started.
KillLauncher(l) ==
    /\ lpc[l] \notin {"idle", "denied", "held", "error", "over", "killed"}
    /\ Fault
    /\ lpc' = [lpc EXCEPT ![l] = "killed"]
    /\ upc' = [upc EXCEPT ![l] = "failed"]
    /\ epc' = [epc EXCEPT ![l] = "exited"]
    /\ disturbed' = disturbed \cup {l}
    /\ UNCHANGED <<policy, decisions, holdQueue, ask, answer, file, log, mode, given, of, copy>>

-----------------------------------------------------------------------------
UpdateStep(u) == Truncate(u) \/ WriteBack(u) \/ LogUpdate(u)

LauncherStep(l) ==
    \/ ReadAnswer(l) \/ CheckTools(l)
    \/ OpenReceipt(l) \/ WriteReceipt(l) \/ LogReceipt(l)
    \/ SessionEnds(l) \/ UpdateByLauncher(l) \/ UpdateStep(l) \/ Finish(l)

EngineActor ==
    /\ \/ \E p \in Process : EngineStep(p)
       \/ \E p \in Caller \cap deployed, q \in Asks : AskEngine(p, q) /\ UNCHANGED faults
    /\ UNCHANGED <<file, log, launchVars, updateVars, disturbed>>

LauncherActor(l) ==
    (\E m \in Modes : Launch(l, m)) \/ LauncherStep(l) \/ CreateFails(l) \/ KillLauncher(l)

UpdaterActor(u) == UpdateByOther(u) \/ UpdateStep(u)

Actor ==
    \/ EngineActor
    \/ \E l \in Launcher \cap deployed : LauncherActor(l)
    \/ \E u \in Updater \cap deployed : UpdaterActor(u)
    \/ \E u \in Update : UpdateFails(u)

Next == Actor /\ UNCHANGED deployed

Spec == Init /\ [][Next]_vars

\* Once started, a launcher and an update run on; the session's page loads
\* have time limits.
FairSpec ==
    /\ Spec
    /\ \A l \in Launcher : WF_vars(LauncherStep(l) /\ UNCHANGED deployed)
    /\ \A u \in Updater : WF_vars(UpdateStep(u) /\ UNCHANGED deployed)

-----------------------------------------------------------------------------
(* Properties.                                                             *)

\* verify-automation-receipt: its statuses are those of the schema, which do
\* not have the one that the launcher gives to a session that failed.
VerifiedStatuses == {"active", "revoked", "ended", "denied", "orphaned"}
Verify(r) ==
    /\ r.status \in VerifiedStatuses
    /\ r.status = "revoked" => r.revokedAt

\* A session runs only when its receipt is filed and logged, and on a decision
\* that its caller gave, or that the engine recorded for it and that is
\* neither a hold nor a denial; a launcher that was held has its decision in
\* the hold queue.
LiveSessionsAreCovered ==
    \A l \in Launcher :
        LET d == answer[l].of IN
        /\ lpc[l] = "run" =>
              /\ file[l].status # "missing"
              /\ \E i \in Versions(l) : log[i].receipt = NewReceipt(l)
              /\ \/ given[l]
                 \/ /\ d \in DOMAIN decisions
                    /\ decisions[d].by = l /\ decisions[d].action = "run_automation"
                    /\ decisions[d].profile = mode[l]
                    /\ decisions[d].decision \notin {"hold", "deny"}
        /\ lpc[l] = "held" =>
              \E i \in DOMAIN holdQueue : holdQueue[i] = d /\ decisions[d].by = l

\* A receipt that no two programs wrote at once, and that none failed to
\* write, reads the same in its file and as the sidecar shows it, once nobody
\* writes it; and the verifier accepts it, unless the session failed.
LogTellsTheFile ==
    \A l \in Launcher \ disturbed :
        (/\ lpc[l] \notin {"idle", "creating", "logging"}
         /\ Updating(l) = {}
         /\ file[l] # NoFile) =>
            /\ Latest(l) = {file[l]}
            /\ Verify(file[l]) <=> file[l].status # "failed"

\* Who has revoked a session finds the time of it in the log, and in the file
\* too, whatever status came later, unless another wrote it at the same time.
RevocationIsKept ==
    \A u \in Updater :
        (upc[u] = "done" /\ copy[u].status = "revoked") =>
            /\ \E i \in Versions(of[u]) : log[i].receipt.revokedAt
            /\ of[u] \in disturbed \/ file[of[u]].revokedAt \/ Updating(of[u]) # {}

\* A session that runs comes to an end that its receipt tells, unless a
\* program was killed or failed to write it.
SessionsAreSettled ==
    \A l \in Launcher :
        lpc[l] = "run" ~> \/ file[l].status \in UpdateStatuses /\ lpc[l] = "over"
                          \/ faults > 0
=============================================================================
