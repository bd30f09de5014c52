---------------------- MODULE AutomationReceiptsProofs ----------------------
(***************************************************************************)
(* That a session runs only on a decision and with a receipt, that the log *)
(* tells the file, and that a revocation is kept: for any launchers,       *)
(* updaters and policy files, any asks of others, and any number of        *)
(* failures and kills.                                                     *)
(***************************************************************************)
EXTENDS AutomationReceipts, TLAPS

-----------------------------------------------------------------------------
(* The inductive invariant.                                                *)

\* A sequence, of anything.
IsSeq(s) == s \in Seq({s[i] : i \in DOMAIN s})

Statuses == {"missing", "empty", "active"} \cup UpdateStatuses
ReceiptType == [status : Statuses, decision : Nat, revokedAt : BOOLEAN, terminatedAt : BOOLEAN]
AnswerType == [code : 0 .. 3, of : Nat, warned : BOOLEAN]

\* Where a launcher is before it makes its receipt, and when it has made it.
Before == {"idle", "asking", "granted", "create", "denied", "held"}
Created == {"run", "ended", "failed", "updating", "over"}
Granted == {"granted", "create", "creating", "logging"} \cup Created

EngineTyped ==
    /\ IsSeq(decisions)
    /\ holdQueue \in Seq(Nat)
    /\ epc \in [Process -> {"idle", "asked", "holding", "exited"}]
    /\ DOMAIN ask = Process
    /\ answer \in [Process -> AnswerType]

FilesTyped ==
    /\ file \in [Launcher -> ReceiptType]
    /\ log \in Seq([id : Launcher, receipt : ReceiptType])
    /\ copy \in [Update -> ReceiptType]

PlacesTyped ==
    /\ lpc \in [Launcher -> Before \cup {"creating", "logging", "error", "killed"} \cup Created]
    /\ mode \in [Launcher -> Modes \cup {"none"}]
    /\ given \in [Launcher -> BOOLEAN]
    /\ upc \in [Update -> {"idle", "done", "failed"} \cup Writing]
    /\ of \in [Update -> Update \cup Launcher]
    /\ \A l \in Launcher : of[l] = l

\* The engine has recorded d for the launcher.
RecordedFor(l, d) ==
    /\ d \in DOMAIN decisions
    /\ decisions[d].by = l
    /\ decisions[d].action = "run_automation"
    /\ decisions[d].profile = mode[l]

\* A launcher's engine runs while the launcher waits for it, and what it
\* answers is what it has recorded.
AnswersAreRecorded ==
    \A l \in Launcher :
        /\ lpc[l] = "idle" => epc[l] = "idle" /\ answer[l] = NoAnswer
        /\ lpc[l] # "asking" => epc[l] \in {"idle", "exited"}
        /\ lpc[l] = "asking" => /\ ask[l].action = "run_automation"
                                /\ ask[l].profile = mode[l]
                                /\ ~ask[l].dryRun
        /\ epc[l] = "holding" => RecordedFor(l, answer[l].of)
        /\ answer[l].code = 0 =>
              /\ RecordedFor(l, answer[l].of)
              /\ decisions[answer[l].of].decision \notin {"hold", "deny"}
        /\ answer[l].code = 2 =>
              /\ RecordedFor(l, answer[l].of)
              /\ \E i \in DOMAIN holdQueue : holdQueue[i] = answer[l].of
        /\ lpc[l] = "held" => answer[l].code = 2
        /\ lpc[l] \in Granted => given[l] \/ answer[l].code = 0

\* What verify-automation-receipt does not reject, but for a failed session.
Sound(r) ==
    /\ r.status \in {"active"} \cup UpdateStatuses
    /\ r.status = "revoked" => r.revokedAt

\* A receipt is made once, and what an update writes is sound.
ReceiptMade(l) ==
    /\ lpc[l] \in Before => file[l] = NoFile
    /\ lpc[l] \in {"creating", "logging"} \cup Created => file[l].status # "missing"
    /\ lpc[l] \in Created => \E i \in Versions(l) : log[i].receipt = NewReceipt(l)

UpdateMade(u) ==
    /\ upc[u] \in Writing \cup {"done"} => of[u] \in Launcher /\ Sound(copy[u])
    /\ upc[u] \in Writing => file[of[u]].status # "missing"
    /\ upc[u] = "done" => \E i \in Versions(of[u]) : log[i].receipt = copy[u]

ReceiptsAreMade ==
    /\ \A l \in Launcher : ReceiptMade(l)
    /\ \A u \in Update : UpdateMade(u)

\* The receipt that nobody disturbs is written by its launcher and then by
\* one update at a time, each of which has read what the last has written.
InTurn(l) ==
    l \notin disturbed =>
        /\ lpc[l] # "killed"
        /\ lpc[l] = "error" => file[l] = NoFile
        /\ lpc[l] = "creating" => file[l] = EmptyFile
        /\ lpc[l] = "logging" => file[l] = NewReceipt(l)
        /\ lpc[l] \in Created /\ Updating(l) = {} => Latest(l) = {file[l]} /\ Sound(file[l])
        /\ \A u \in Update : of[u] = l /\ upc[u] \in Writing \cup {"done"} => lpc[l] \in Created
        /\ \A u, v \in Updating(l) : u = v
        /\ \A u \in Updating(l) : upc[u] = "log" => file[l] = copy[u]

WrittenInTurn == \A l \in Launcher : InTurn(l)

\* An update that comes after a revocation has read it.
RevocationRead(u) ==
    (upc[u] = "done" /\ copy[u].revokedAt /\ of[u] \notin disturbed) =>
        /\ Updating(of[u]) = {} => file[of[u]].revokedAt
        /\ \A v \in Updating(of[u]) : copy[v].revokedAt

RevocationsAreRead == \A u \in Update : RevocationRead(u)

IInv ==
    /\ EngineTyped
    /\ FilesTyped
    /\ PlacesTyped
    /\ AnswersAreRecorded
    /\ ReceiptsAreMade
    /\ WrittenInTurn
    /\ RevocationsAreRead

-----------------------------------------------------------------------------
(* Sequences, the engine's operators and receipts.                         *)

LEMMA AppendedToSeq ==
    ASSUME NEW s, IsSeq(s), NEW e
    PROVE  /\ IsSeq(Append(s, e))
           /\ Len(s) \in Nat /\ DOMAIN s = 1 .. Len(s)
           /\ DOMAIN Append(s, e) = 1 .. Len(s) + 1
           /\ Append(s, e)[Len(s) + 1] = e
           /\ \A i \in 1 .. Len(s) : Append(s, e)[i] = s[i]
<1> DEFINE S == {s[i] : i \in DOMAIN s} \cup {e}
           t == Append(s, e)
<1>1. s \in Seq(S)
  BY DEF IsSeq
<1>2. e \in S
  OBVIOUS
<1>3. /\ Len(s) \in Nat /\ DOMAIN s = 1 .. Len(s)
      /\ Len(t) = Len(s) + 1 /\ DOMAIN t = 1 .. Len(s) + 1
      /\ t[Len(s) + 1] = e
      /\ \A i \in 1 .. Len(s) : t[i] = s[i]
      /\ t = [i \in 1 .. Len(t) |-> t[i]]
  <2>1. Append(s, e) \in Seq(S)
    <3> HIDE DEF S
    <3> QED  BY <1>1, <1>2
  <2>2. /\ Len(s) \in Nat /\ DOMAIN s = 1 .. Len(s)
        /\ Len(Append(s, e)) = Len(s) + 1
        /\ DOMAIN Append(s, e) = 1 .. Len(s) + 1
        /\ Append(s, e)[Len(s) + 1] = e
        /\ \A i \in 1 .. Len(s) : Append(s, e)[i] = s[i]
    <3> HIDE DEF S
    <3> QED  BY <1>1, <1>2
  <2>3. ASSUME NEW q \in Seq(S)
        PROVE  q = [i \in 1 .. Len(q) |-> q[i]]
    <3> HIDE DEF S
    <3> QED  OBVIOUS
  <2> QED  BY <2>1, <2>2, <2>3
<1>4. t \in Seq({t[i] : i \in DOMAIN t})
  <2> DEFINE T == {t[i] : i \in DOMAIN t}
  <2>1. Len(t) \in Nat /\ \A i \in 1 .. Len(t) : t[i] \in T
    BY <1>3
  <2>2. t \in [1 .. Len(t) -> T]
    <3> HIDE DEF t, T
    <3> QED  BY <1>3, <2>1
  <2>3. t \in Seq(T)
    <3> HIDE DEF t, T
    <3> QED  BY <2>1, <2>2
  <2> QED  BY <2>3
<1> QED  BY <1>3, <1>4 DEF IsSeq

LEMMA AppendedElement ==
    ASSUME NEW S, NEW seq \in Seq(S), NEW e \in S
    PROVE  /\ Append(seq, e) \in Seq(S)
           /\ Len(seq) \in Nat /\ DOMAIN seq = 1 .. Len(seq)
           /\ DOMAIN Append(seq, e) = 1 .. Len(seq) + 1
           /\ Append(seq, e)[Len(seq) + 1] = e
           /\ \A i \in 1 .. Len(seq) : Append(seq, e)[i] = seq[i]
OBVIOUS

\* An exit code says which decision it was.
LEMMA ExitCodes ==
    ASSUME NEW d
    PROVE  /\ ExitCode(d) \in 0 .. 3
           /\ ExitCode(d) = 0 => d \notin {"hold", "deny"}
           /\ ExitCode(d) = 2 => d = "hold"
           /\ ExitCode("hold") = 2
BY DEF ExitCode

LEMMA AnswersAreTyped ==
    ASSUME NEW code \in 0 .. 3, NEW n \in Nat, NEW p
    PROVE  Answer(code, n, Warned(p)) \in AnswerType
BY DEF Answer, AnswerType, Warned

LEMMA NoAnswerIsTyped ==
    /\ NoAnswer \in AnswerType /\ NoAnswer.code = 1 /\ NoAnswer.of = 0
BY DEF NoAnswer, Answer, AnswerType

LEMMA NewReceipts ==
    ASSUME NEW d \in Nat
    PROVE  /\ Receipt("active", d) \in ReceiptType
           /\ Sound(Receipt("active", d))
           /\ Receipt("active", d).status = "active"
           /\ NoFile \in ReceiptType /\ NoFile.status = "missing"
           /\ EmptyFile \in ReceiptType /\ EmptyFile.status = "empty"
BY DEF Receipt, ReceiptType, Sound, NoFile, EmptyFile, Statuses, UpdateStatuses

\* An update sets the status and keeps the stamps.
LEMMA StampedReceipt ==
    ASSUME NEW r \in ReceiptType, NEW status \in UpdateStatuses
    PROVE  /\ Stamp(r, status) \in ReceiptType
           /\ Sound(Stamp(r, status))
           /\ r.revokedAt => Stamp(r, status).revokedAt
<1> DEFINE x == Stamp(r, status)
<1>1. /\ x.status = status
      /\ x.revokedAt = (r.revokedAt \/ status = "revoked")
      /\ x.terminatedAt = (r.terminatedAt \/ status \in {"ended", "failed"})
      /\ x.decision = r.decision
      /\ DOMAIN x = DOMAIN r
  BY DEF Stamp, ReceiptType
<1>2. x \in ReceiptType
  BY DEF Stamp, ReceiptType, Statuses
<1>3. Sound(x)
  BY <1>1 DEF Sound
<1> QED  BY <1>1, <1>2, <1>3

\* A log with a version more.
LEMMA LoggedVersion ==
    ASSUME FilesTyped, NEW l \in Launcher, NEW r \in ReceiptType, AppendLog(l, r)
    PROVE  /\ log' \in Seq([id : Launcher, receipt : ReceiptType])
           /\ \A m \in Launcher : \A i \in Versions(m) :
                 i \in Versions(m)' /\ log'[i] = log[i]
           /\ \E i \in Versions(l)' : log'[i].receipt = r
           /\ Latest(l)' = {r}
           /\ \A m \in Launcher \ {l} : Latest(m)' = Latest(m)
<1> DEFINE e == [id |-> l, receipt |-> r]
           L == [id : Launcher, receipt : ReceiptType]
           n == Len(log) + 1
<1>1. log \in Seq(L) /\ e \in L /\ log' = Append(log, e)
  BY DEF FilesTyped, AppendLog
<1>2. /\ log' \in Seq(L) /\ Len(log) \in Nat /\ DOMAIN log = 1 .. Len(log)
      /\ DOMAIN log' = 1 .. Len(log) + 1 /\ log'[n] = e
      /\ \A i \in 1 .. Len(log) : log'[i] = log[i]
  <2> HIDE DEF e, L
  <2> QED  BY <1>1, AppendedElement
<1>3. e.id = l /\ e.receipt = r
  OBVIOUS
<1> HIDE DEF e, L
<1>4. Versions(l)' = Versions(l) \cup {n}
  BY <1>2, <1>3 DEF Versions
<1>5. ASSUME NEW m \in Launcher \ {l}
      PROVE  Versions(m)' = Versions(m)
  BY <1>2, <1>3 DEF Versions
<1>6. \A m \in Launcher : \A i \in Versions(m) : i \in 1 .. Len(log)
  BY <1>2 DEF Versions
<1>7. Latest(l)' = {r}
  <2>1. {j \in Versions(l)' : \A k \in Versions(l)' : k <= j} = {n}
    BY <1>2, <1>4, <1>6
  <2> QED  BY <1>2, <1>3, <2>1 DEF Latest
<1>8. ASSUME NEW m \in Launcher \ {l}
      PROVE  Latest(m)' = Latest(m)
  BY <1>2, <1>5, <1>6 DEF Latest
<1>9. \A m \in Launcher : \A i \in Versions(m) : i \in Versions(m)' /\ log'[i] = log[i]
  BY <1>2, <1>4, <1>5, <1>6
<1>10. n \in Versions(l)' /\ log'[n].receipt = r
  BY <1>2, <1>3, <1>4
<1> QED  BY <1>2, <1>7, <1>8, <1>9, <1>10 DEF L

-----------------------------------------------------------------------------
LEMMA InitInv == Init => IInv
<1> SUFFICES ASSUME Init PROVE IInv
  OBVIOUS
<1>1. EngineTyped
  <2>1. IsSeq(decisions) /\ holdQueue \in Seq(Nat)
    BY DEF Init, EngineInit, IsSeq
  <2> QED  BY <2>1, NoAnswerIsTyped DEF Init, EngineInit, EngineTyped
<1>2. FilesTyped
  BY NewReceipts DEF Init, FilesTyped
<1>3. PlacesTyped
  <2>1. Launcher \subseteq Update
    BY DEF Update
  <2> QED  BY <2>1 DEF Init, PlacesTyped, Before, Writing
<1>4. AnswersAreRecorded
  BY NoAnswerIsTyped, ProcessAssumption DEF Init, EngineInit, AnswersAreRecorded, Granted, Created
<1>5. ReceiptsAreMade /\ WrittenInTurn /\ RevocationsAreRead
  <2>1. \A l \in Launcher : lpc[l] = "idle" /\ file[l] = NoFile
    BY DEF Init
  <2>2. \A u \in Update : upc[u] = "idle"
    BY DEF Init
  <2>3. \A l \in Launcher : Updating(l) = {}
    BY <2>2 DEF Updating, Writing
  <2> QED
    BY <2>1, <2>2, <2>3
    DEF ReceiptsAreMade, ReceiptMade, UpdateMade, WrittenInTurn, InTurn,
        RevocationsAreRead, RevocationRead, Writing, Created
<1> QED  BY <1>1, <1>2, <1>3, <1>4, <1>5 DEF IInv

-----------------------------------------------------------------------------
(* What stays as it is.                                                    *)

fileVars == <<file, log, upc, of, copy, disturbed>>

\* Nobody writes a receipt, and no launcher moves, or one goes on to where
\* its receipt is as far as it was.
LEMMA FilesStay ==
    ASSUME IInv, UNCHANGED fileVars,
           \A l \in Launcher :
               \/ lpc'[l] = lpc[l]
               \/ lpc[l] \in Before /\ lpc'[l] \in Before \cup {"error"}
               \/ lpc[l] \in Created /\ lpc'[l] \in Created,
           \A l \in Launcher : lpc[l] \in {"logging"} \cup Created => answer'[l] = answer[l]
    PROVE  FilesTyped' /\ ReceiptsAreMade' /\ WrittenInTurn' /\ RevocationsAreRead'
<1>1. UNCHANGED <<file, log, upc, of, copy, disturbed>>
  BY DEF fileVars
<1>2. FilesTyped'
  BY <1>1 DEF IInv, FilesTyped
<1>3. \A l : Versions(l)' = Versions(l) /\ Latest(l)' = Latest(l) /\ Updating(l)' = Updating(l)
  BY <1>1 DEF Versions, Latest, Updating
<1>4. \A l \in Launcher : lpc[l] \in {"logging"} \cup Created => NewReceipt(l)' = NewReceipt(l)
  BY DEF NewReceipt
<1>5. ReceiptsAreMade'
  BY <1>1, <1>3, <1>4 DEF IInv, ReceiptsAreMade, ReceiptMade, UpdateMade, Before, Created
<1>6. ASSUME NEW l \in Launcher
      PROVE  InTurn(l)'
  BY <1>1, <1>3, <1>4
  DEF IInv, WrittenInTurn, InTurn, ReceiptsAreMade, ReceiptMade, Before, Created
<1>7. RevocationsAreRead'
  BY <1>1, <1>3 DEF IInv, RevocationsAreRead, RevocationRead
<1> QED  BY <1>2, <1>5, <1>6, <1>7 DEF WrittenInTurn

\* The engine is not concerned, or its launcher is killed.
LEMMA AnswersStay ==
    ASSUME IInv, UNCHANGED <<decisions, holdQueue, ask, answer, mode, given>>,
           \A l \in Launcher :
               \/ lpc'[l] = lpc[l] /\ epc'[l] = epc[l]
               \/ /\ lpc'[l] \notin {"idle", "asking", "held"}
                  /\ lpc'[l] \in Granted => lpc[l] \in Granted
                  /\ epc'[l] \in {"idle", "exited"}
    PROVE  AnswersAreRecorded'
BY DEF IInv, AnswersAreRecorded, RecordedFor

-----------------------------------------------------------------------------
(* The engine.                                                             *)

\* What was recorded for a launcher stays so.
LEMMA RecordsStay ==
    ASSUME IInv, NEW e, decisions' = Append(decisions, e), mode' = mode
    PROVE  /\ IsSeq(decisions')
           /\ Len(decisions) + 1 \in DOMAIN decisions' /\ Len(decisions) + 1 \in Nat
           /\ decisions'[Len(decisions) + 1] = e
           /\ \A d \in DOMAIN decisions : d \in DOMAIN decisions' /\ decisions'[d] = decisions[d]
           /\ \A l \in Launcher : \A d : RecordedFor(l, d) => RecordedFor(l, d)'
<1>1. IsSeq(decisions)
  BY DEF IInv, EngineTyped
<1>2. /\ IsSeq(decisions') /\ Len(decisions) \in Nat /\ DOMAIN decisions = 1 .. Len(decisions)
      /\ DOMAIN decisions' = 1 .. Len(decisions) + 1
      /\ decisions'[Len(decisions) + 1] = e
      /\ \A i \in 1 .. Len(decisions) : decisions'[i] = decisions[i]
  BY <1>1, AppendedToSeq
<1>3. \A d \in DOMAIN decisions : d \in DOMAIN decisions' /\ decisions'[d] = decisions[d]
  BY <1>2
<1>4. Len(decisions) + 1 \in DOMAIN decisions' /\ Len(decisions) + 1 \in Nat
  BY <1>2
<1> QED  BY <1>2, <1>3, <1>4 DEF RecordedFor

\* An engine that exits without a decision.
LEMMA ExitsUnanswered ==
    ASSUME IInv, NEW p \in Process, epc[p] \in {"asked", "holding"},
           UNCHANGED <<decisions, holdQueue, ask, lpc, mode, given>>,
           NEW reply \in AnswerType, Exit(p, reply),
           p \in Launcher => reply.code \notin {0, 2}
    PROVE  EngineTyped' /\ AnswersAreRecorded'
<1>1. /\ epc' = [epc EXCEPT ![p] = "exited"] /\ answer' = [answer EXCEPT ![p] = reply]
  BY DEF Exit
<1>2. EngineTyped'
  BY <1>1 DEF IInv, EngineTyped
<1>3. ASSUME NEW l \in Launcher
      PROVE  AnswersAreRecorded!(l)'
  <2>1. CASE l # p
    <3>1. epc'[l] = epc[l] /\ answer'[l] = answer[l] /\ l \in Process
      BY <1>1, <2>1, ProcessAssumption DEF IInv, EngineTyped
    <3> QED  BY <3>1 DEF IInv, AnswersAreRecorded, RecordedFor
  <2>2. CASE l = p
    <3>1. epc'[l] = "exited" /\ answer'[l] = reply
      BY <1>1, <2>2 DEF IInv, EngineTyped
    <3>2. lpc[l] = "asking"
      BY <2>2 DEF IInv, AnswersAreRecorded
    <3> QED  BY <2>2, <3>1, <3>2 DEF IInv, AnswersAreRecorded, Granted, Created
  <2> QED  BY <2>1, <2>2
<1> QED  BY <1>2, <1>3 DEF AnswersAreRecorded

LEMMA DecisionRecorded ==
    ASSUME IInv, NEW p \in Process, RecordDecision(p), UNCHANGED <<lpc, mode, given>>
    PROVE  EngineTyped' /\ AnswersAreRecorded'
<1>n. PICK n : n = Len(decisions) + 1
  OBVIOUS
<1> DEFINE e == [action |-> ask[p].action, profile |-> ask[p].profile,
                 decision |-> Verdict(p), by |-> p]
           code == IF Verdict(p) = "hold" THEN 1 ELSE ExitCode(Verdict(p))
           reply == Answer(code, n, Warned(p))
<1>1. epc[p] = "asked" /\ decisions' = Append(decisions, e) /\ UNCHANGED <<holdQueue, ask>>
  BY DEF RecordDecision, Evaluates
<1>2. /\ answer' = [answer EXCEPT ![p] = reply]
      /\ epc' = [epc EXCEPT ![p] = IF Verdict(p) = "hold" THEN "holding" ELSE "exited"]
  BY <1>n DEF RecordDecision, Exit
<1>3. /\ e.action = ask[p].action /\ e.profile = ask[p].profile
      /\ e.decision = Verdict(p) /\ e.by = p
  OBVIOUS
<1>4. code \in 0 .. 3 /\ (code = 0 => e.decision \notin {"hold", "deny"}) /\ code # 2
  BY ExitCodes
<1> HIDE DEF e, code
<1>5. /\ IsSeq(decisions') /\ n \in DOMAIN decisions' /\ n \in Nat /\ decisions'[n] = e
      /\ \A d \in DOMAIN decisions : d \in DOMAIN decisions' /\ decisions'[d] = decisions[d]
      /\ \A l \in Launcher : \A d : RecordedFor(l, d) => RecordedFor(l, d)'
  BY <1>n, <1>1, RecordsStay
<1>6. reply \in AnswerType /\ reply.code = code /\ reply.of = n
  BY <1>4, <1>5, AnswersAreTyped DEF Answer
<1> HIDE DEF reply
<1>7. EngineTyped'
  <2>1. epc' \in [Process -> {"idle", "asked", "holding", "exited"}]
    BY <1>2 DEF IInv, EngineTyped
  <2> QED  BY <1>1, <1>2, <1>5, <1>6, <2>1 DEF IInv, EngineTyped
<1>8. ASSUME NEW l \in Launcher
      PROVE  AnswersAreRecorded!(l)'
  <2>1. CASE l # p
    <3>1. epc'[l] = epc[l] /\ answer'[l] = answer[l] /\ l \in Process
      BY <1>2, <2>1, ProcessAssumption DEF IInv, EngineTyped
    <3>2. \A d : RecordedFor(l, d) => /\ d \in DOMAIN decisions
                                      /\ decisions'[d] = decisions[d]
                                      /\ RecordedFor(l, d)'
      BY <1>5 DEF RecordedFor
    <3> QED  BY <1>1, <3>1, <3>2 DEF IInv, AnswersAreRecorded
  <2>2. CASE l = p
    <3>1. epc'[l] \in {"holding", "exited"} /\ answer'[l] = reply
      BY <1>2, <2>2 DEF IInv, EngineTyped
    <3>2. lpc[l] = "asking" /\ ask[l].action = "run_automation" /\ ask[l].profile = mode[l]
          /\ ~ask[l].dryRun
      BY <1>1, <2>2 DEF IInv, AnswersAreRecorded
    <3>3. RecordedFor(l, n)'
      BY <1>3, <1>5, <2>2, <3>2 DEF RecordedFor
    <3> QED
      BY <1>1, <1>3, <1>4, <1>5, <1>6, <2>2, <3>1, <3>2, <3>3 DEF AnswersAreRecorded, Granted, Created
  <2> QED  BY <2>1, <2>2
<1> QED  BY <1>7, <1>8 DEF AnswersAreRecorded

LEMMA HoldQueued ==
    ASSUME IInv, NEW p \in Process, QueueHold(p), UNCHANGED <<lpc, mode, given>>
    PROVE  EngineTyped' /\ AnswersAreRecorded'
<1> DEFINE reply == [answer[p] EXCEPT !.code = ExitCode("hold")]
<1>1. /\ epc[p] = "holding" /\ holdQueue' = Append(holdQueue, answer[p].of)
      /\ epc' = [epc EXCEPT ![p] = "exited"] /\ answer' = [answer EXCEPT ![p] = reply]
      /\ UNCHANGED <<decisions, ask>>
  BY DEF QueueHold, Exit
<1>2. answer[p] \in AnswerType /\ holdQueue \in Seq(Nat)
  BY DEF IInv, EngineTyped
<1>3. reply \in AnswerType /\ reply.code = 2 /\ reply.of = answer[p].of
  BY <1>2, ExitCodes DEF AnswerType
<1> HIDE DEF reply
<1>4. /\ holdQueue' \in Seq(Nat) /\ DOMAIN holdQueue = 1 .. Len(holdQueue) /\ Len(holdQueue) \in Nat
      /\ DOMAIN holdQueue' = 1 .. Len(holdQueue) + 1
      /\ holdQueue'[Len(holdQueue) + 1] = answer[p].of
      /\ \A i \in 1 .. Len(holdQueue) : holdQueue'[i] = holdQueue[i]
  <2>1. answer[p].of \in Nat
    BY <1>2 DEF AnswerType
  <2> QED  BY <1>1, <1>2, <2>1, AppendedElement
<1>5. EngineTyped'
  BY <1>1, <1>3, <1>4 DEF IInv, EngineTyped
<1>6. /\ \A i \in DOMAIN holdQueue : i \in DOMAIN holdQueue' /\ holdQueue'[i] = holdQueue[i]
      /\ \E i \in DOMAIN holdQueue' : holdQueue'[i] = answer[p].of
  BY <1>4
<1>7. ASSUME NEW l \in Launcher
      PROVE  AnswersAreRecorded!(l)'
  <2>1. CASE l # p
    <3>1. epc'[l] = epc[l] /\ answer'[l] = answer[l] /\ l \in Process
      BY <1>1, <2>1, ProcessAssumption DEF IInv, EngineTyped
    <3> QED  BY <1>1, <1>6, <3>1 DEF IInv, AnswersAreRecorded, RecordedFor
  <2>2. CASE l = p
    <3>1. epc'[l] = "exited" /\ answer'[l] = reply
      BY <1>1, <2>2 DEF IInv, EngineTyped
    <3>2. lpc[l] = "asking" /\ RecordedFor(l, answer[l].of)
      BY <1>1, <2>2 DEF IInv, AnswersAreRecorded
    <3> QED
      BY <1>1, <1>3, <1>6, <2>2, <3>1, <3>2
      DEF IInv, AnswersAreRecorded, RecordedFor, Granted, Created
  <2> QED  BY <2>1, <2>2
<1> QED  BY <1>5, <1>7 DEF AnswersAreRecorded

\* An engine's answer is read only by a launcher that waits for it.
LEMMA EnginePreserves ==
    ASSUME IInv, EngineActor
    PROVE  IInv'
<1>1. UNCHANGED <<file, log, lpc, mode, given, upc, of, copy, disturbed>>
  BY DEF EngineActor, launchVars, updateVars
<1>2. PlacesTyped'
  BY <1>1 DEF IInv, PlacesTyped
<1>3. /\ EngineTyped' /\ AnswersAreRecorded'
      /\ \A l \in Launcher : lpc[l] # "asking" => answer'[l] = answer[l]
  <2>1. ASSUME NEW p \in Process, EngineStep(p)
        PROVE  /\ EngineTyped' /\ AnswersAreRecorded'
               /\ epc[p] \in {"asked", "holding"}
               /\ \E reply : answer' = [answer EXCEPT ![p] = reply]
    <3>1. CASE Refuse(p) \/ EngineFails(p)
      BY <1>1, <3>1, ExitsUnanswered, NoAnswerIsTyped DEF Refuse, EngineFails, Exit
    <3>2. CASE AnswerDryRun(p)
      <4> DEFINE reply == Answer(ExitCode(Verdict(p)), 0, Warned(p))
      <4>1. /\ epc[p] = "asked" /\ ask[p].dryRun /\ Exit(p, reply)
            /\ UNCHANGED <<decisions, holdQueue, ask>>
        BY <3>2 DEF AnswerDryRun, Evaluates
      <4>2. reply \in AnswerType
        BY ExitCodes, AnswersAreTyped
      <4>3. p \notin Launcher
        BY <4>1 DEF IInv, AnswersAreRecorded
      <4> HIDE DEF reply
      <4>4. EngineTyped' /\ AnswersAreRecorded'
        BY <1>1, <4>1, <4>2, <4>3, ExitsUnanswered
      <4> QED  BY <4>1, <4>4 DEF Exit
    <3>3. CASE RecordDecision(p)
      BY <1>1, <3>3, DecisionRecorded DEF RecordDecision, Evaluates, Exit
    <3>4. CASE QueueHold(p)
      BY <1>1, <3>4, HoldQueued DEF QueueHold, Exit
    <3> QED  BY <2>1, <3>1, <3>2, <3>3, <3>4 DEF EngineStep
  <2>2. ASSUME NEW p \in Caller, NEW q, AskEngine(p, q)
        PROVE  EngineTyped' /\ AnswersAreRecorded' /\ answer' = answer
    <3>1. p \in Process /\ p \notin Launcher
      BY ProcessAssumption
    <3>2. /\ epc' = [epc EXCEPT ![p] = "asked"] /\ ask' = [ask EXCEPT ![p] = q]
          /\ UNCHANGED <<decisions, holdQueue, answer>>
      BY <2>2 DEF AskEngine
    <3>3. EngineTyped'
      BY <3>2 DEF IInv, EngineTyped
    <3>4. \A l \in Launcher : epc'[l] = epc[l] /\ ask'[l] = ask[l]
      BY <3>1, <3>2, ProcessAssumption DEF IInv, EngineTyped
    <3> QED  BY <1>1, <3>2, <3>3, <3>4 DEF IInv, AnswersAreRecorded, RecordedFor
  <2>3. CASE \E p \in Process : EngineStep(p)
    <3>1. PICK p \in Process : EngineStep(p)
      BY <2>3
    <3>2. EngineTyped' /\ AnswersAreRecorded' /\ epc[p] \in {"asked", "holding"}
      BY <2>1, <3>1
    <3>3. PICK reply : answer' = [answer EXCEPT ![p] = reply]
      BY <2>1, <3>1
    <3>4. ASSUME NEW l \in Launcher, lpc[l] # "asking"
          PROVE  answer'[l] = answer[l]
      <4>1. l # p
        BY <3>2, <3>4 DEF IInv, AnswersAreRecorded
      <4> QED  BY <3>3, <4>1, ProcessAssumption DEF IInv, EngineTyped
    <3> QED  BY <3>2, <3>4
  <2>4. CASE \E p \in Caller \cap deployed, q \in Asks : AskEngine(p, q)
    BY <2>2, <2>4
  <2> QED  BY <2>3, <2>4 DEF EngineActor
<1>4. FilesTyped' /\ ReceiptsAreMade' /\ WrittenInTurn' /\ RevocationsAreRead'
  BY <1>1, <1>3, FilesStay DEF fileVars, Created
<1> QED  BY <1>2, <1>3, <1>4 DEF IInv

-----------------------------------------------------------------------------
(* The launcher.                                                           *)

Places == Before \cup {"creating", "logging", "error", "killed"} \cup Created

LEMMA LauncherTyped ==
    ASSUME IInv, NEW l \in Launcher, NEW to \in Places, lpc' = [lpc EXCEPT ![l] = to],
           mode' \in [Launcher -> Modes \cup {"none"}], given' \in [Launcher -> BOOLEAN],
           UNCHANGED <<upc, of>>
    PROVE  PlacesTyped' /\ lpc'[l] = to /\ \A m \in Launcher \ {l} : lpc'[m] = lpc[m]
BY DEF IInv, PlacesTyped, Places

LEMMA EngineTypedStays ==
    ASSUME IInv, UNCHANGED <<decisions, holdQueue, ask, epc, answer>>
    PROVE  EngineTyped'
BY DEF IInv, EngineTyped

LEMMA LaunchPreserves ==
    ASSUME IInv, NEW l \in Launcher, NEW m \in Modes, Launch(l, m)
    PROVE  IInv'
<1>1. PICK to \in {"granted", "asking"} :
          /\ lpc[l] = "idle" /\ lpc' = [lpc EXCEPT ![l] = to]
          /\ to = "granted" => given' = [given EXCEPT ![l] = TRUE] /\ UNCHANGED engineVars
          /\ to = "asking" =>
                /\ AskEngine(l, [NoAsk EXCEPT !.action = "run_automation", !.profile = m])
                /\ given' = given
  BY DEF Launch, GotoL
<1>2. mode' = [mode EXCEPT ![l] = m] /\ UNCHANGED <<file, log, upc, of, copy, disturbed>>
  BY DEF Launch, updateVars
<1>3. UNCHANGED <<decisions, holdQueue, answer>>
  BY <1>1 DEF AskEngine, engineVars
<1>4. l \in Process /\ epc[l] = "idle" /\ answer[l] = NoAnswer
  BY <1>1, ProcessAssumption DEF IInv, AnswersAreRecorded
<1> DEFINE q == [NoAsk EXCEPT !.action = "run_automation", !.profile = m]
<1>5. q.action = "run_automation" /\ q.profile = m /\ ~q.dryRun
  BY DEF NoAsk
<1>6. \/ to = "granted" /\ UNCHANGED <<epc, ask>>
      \/ /\ to = "asking"
         /\ epc' = [epc EXCEPT ![l] = "asked"] /\ ask' = [ask EXCEPT ![l] = q]
  BY <1>1 DEF AskEngine, engineVars
<1> HIDE DEF q
<1>7. given' \in [Launcher -> BOOLEAN]
  <2>1. given \in [Launcher -> BOOLEAN]
    BY DEF IInv, PlacesTyped
  <2>2. given' = given \/ given' = [given EXCEPT ![l] = TRUE]
    BY <1>1
  <2> QED  BY <2>1, <2>2
<1>8. PlacesTyped' /\ lpc'[l] = to /\ \A k \in Launcher \ {l} : lpc'[k] = lpc[k]
  <2>1. mode' \in [Launcher -> Modes \cup {"none"}]
    BY <1>2 DEF IInv, PlacesTyped
  <2>2. to \in Places
    BY DEF Places, Before
  <2> QED  BY <1>1, <1>2, <1>7, <2>1, <2>2, LauncherTyped
<1>9. EngineTyped'
  BY <1>3, <1>6 DEF IInv, EngineTyped
<1>10. AnswersAreRecorded'
  <2>1. ASSUME NEW k \in Launcher
        PROVE  AnswersAreRecorded!(k)'
    <3>1. CASE k # l
      <4>1. epc'[k] = epc[k] /\ ask'[k] = ask[k] /\ mode'[k] = mode[k] /\ lpc'[k] = lpc[k]
        BY <1>2, <1>6, <1>8, <3>1, ProcessAssumption DEF IInv, EngineTyped, PlacesTyped
      <4>2. given'[k] = given[k]
        BY <1>1, <3>1 DEF IInv, PlacesTyped
      <4> QED  BY <1>3, <4>1, <4>2 DEF IInv, AnswersAreRecorded, RecordedFor
    <3>2. CASE k = l
      <4>1. mode'[l] = m /\ answer'[l] = NoAnswer
        BY <1>2, <1>3, <1>4 DEF IInv, PlacesTyped
      <4>2. to = "granted" => given'[l] /\ epc'[l] = "idle"
        BY <1>1, <1>4, <1>6 DEF IInv, PlacesTyped
      <4>3. to = "asking" => ask'[l] = q /\ epc'[l] = "asked"
        BY <1>4, <1>6 DEF IInv, EngineTyped
      <4> QED
        BY <1>5, <1>8, <3>2, <4>1, <4>2, <4>3, NoAnswerIsTyped
        DEF AnswersAreRecorded, Granted, Created
    <3> QED  BY <3>1, <3>2
  <2> QED  BY <2>1 DEF AnswersAreRecorded
<1>11. FilesTyped' /\ ReceiptsAreMade' /\ WrittenInTurn' /\ RevocationsAreRead'
  BY <1>1, <1>2, <1>3, <1>8, FilesStay DEF fileVars, Before
<1> QED  BY <1>8, <1>9, <1>10, <1>11 DEF IInv

\* A launcher goes on, and no file is written.
LEMMA MovePreserves ==
    ASSUME IInv, NEW l \in Launcher,
           ReadAnswer(l) \/ CheckTools(l) \/ SessionEnds(l) \/ Finish(l)
    PROVE  IInv'
<1>1. UNCHANGED <<decisions, holdQueue, ask, epc, answer, file, log, mode, given, upc, of, copy,
                  disturbed>>
  BY DEF ReadAnswer, CheckTools, SessionEnds, Finish, engineVars, updateVars
<1>2. l \in Process /\ answer[l] \in AnswerType /\ answer[l].code \in 0 .. 3
  BY ProcessAssumption DEF IInv, EngineTyped, AnswerType
<1>3. PICK to \in Places :
          /\ lpc' = [lpc EXCEPT ![l] = to]
          /\ \/ lpc[l] \in Before /\ to \in Before \cup {"error"}
             \/ lpc[l] \in Created /\ to \in Created
          /\ to \notin {"idle", "asking"}
          /\ to = "held" => answer[l].code = 2
          /\ to \in Granted => lpc[l] \in Granted \/ answer[l].code = 0
          /\ epc[l] \in {"idle", "exited"}
  <2>1. CASE ReadAnswer(l)
    <3>1. lpc[l] = "asking" /\ epc[l] = "exited"
      BY <2>1 DEF ReadAnswer, GotoL
    <3> DEFINE to == CASE answer[l].code = 3 -> "denied"
                       [] answer[l].code = 2 -> "held"
                       [] answer[l].code = 1 -> "error"
                       [] OTHER -> IF answer[l].warned THEN "error" ELSE "granted"
    <3>2. lpc' = [lpc EXCEPT ![l] = to]
      BY <2>1 DEF ReadAnswer, GotoL
    <3>3. /\ to \in {"denied", "held", "error", "granted"}
          /\ to = "held" => answer[l].code = 2
          /\ to = "granted" => answer[l].code = 0
      BY <1>2
    <3> HIDE DEF to
    <3> QED  BY <3>1, <3>2, <3>3 DEF Places, Before, Granted, Created
  <2>2. CASE CheckTools(l)
    <3>1. PICK to \in {"create", "error"} : lpc[l] = "granted" /\ lpc' = [lpc EXCEPT ![l] = to]
      BY <2>2 DEF CheckTools, GotoL
    <3> QED  BY <3>1 DEF Places, Before, Granted, Created, IInv, AnswersAreRecorded
  <2>3. CASE SessionEnds(l)
    <3>1. PICK to \in {"ended", "failed"} : lpc[l] = "run" /\ lpc' = [lpc EXCEPT ![l] = to]
      BY <2>3 DEF SessionEnds, GotoL
    <3> QED  BY <3>1 DEF Places, Before, Granted, Created, IInv, AnswersAreRecorded
  <2>4. CASE Finish(l)
    <3>1. lpc[l] = "updating" /\ lpc' = [lpc EXCEPT ![l] = "over"]
      BY <2>4 DEF Finish, GotoL
    <3> QED  BY <3>1 DEF Places, Before, Granted, Created, IInv, AnswersAreRecorded
  <2> QED  BY <2>1, <2>2, <2>3, <2>4
<1>4. PlacesTyped' /\ lpc'[l] = to /\ \A k \in Launcher \ {l} : lpc'[k] = lpc[k]
  <2>1. mode' \in [Launcher -> Modes \cup {"none"}] /\ given' \in [Launcher -> BOOLEAN]
    BY <1>1 DEF IInv, PlacesTyped
  <2> QED  BY <1>1, <1>3, <2>1, LauncherTyped
<1>5. AnswersAreRecorded'
  BY <1>1, <1>3, <1>4 DEF IInv, AnswersAreRecorded, RecordedFor
<1>6. FilesTyped' /\ ReceiptsAreMade' /\ WrittenInTurn' /\ RevocationsAreRead'
  BY <1>1, <1>3, <1>4, FilesStay DEF fileVars
<1> QED  BY <1>1, <1>4, <1>5, <1>6, EngineTypedStays DEF IInv

-----------------------------------------------------------------------------
(* A step that writes one receipt.                                         *)

\* Only the receipt of l and what updates it have changed, and no more than
\* one update has begun.
OnlyReceipt(l) ==
    /\ \A m \in Launcher \ {l} :
          file'[m] = file[m] /\ lpc'[m] = lpc[m] /\ Latest(m)' = Latest(m)
    /\ \A m \in Launcher : \A i \in Versions(m) : i \in Versions(m)' /\ log'[i] = log[i]
    /\ disturbed' \in {disturbed, disturbed \cup {l}}
    /\ \A u \in Update :
          \/ upc'[u] = upc[u] /\ of'[u] = of[u] /\ copy'[u] = copy[u]
          \/ of'[u] = l /\ (of[u] = l \/ upc[u] = "idle")

LEMMA OthersStay ==
    ASSUME IInv, NEW l \in Launcher, OnlyReceipt(l), answer' = answer
    PROVE  /\ \A m \in Launcher \ {l} : ReceiptMade(m)' /\ InTurn(m)'
           /\ \A u \in Update : of'[u] # l => UpdateMade(u)' /\ RevocationRead(u)'
<1>1. ASSUME NEW m \in Launcher \ {l}
      PROVE  Updating(m)' = Updating(m)
  BY DEF OnlyReceipt, Updating, Writing
<1>2. ASSUME NEW m \in Launcher \ {l}
      PROVE  ReceiptMade(m)'
  <2>1. NewReceipt(m)' = NewReceipt(m)
    BY DEF NewReceipt
  <2> QED  BY <2>1 DEF IInv, ReceiptsAreMade, ReceiptMade, OnlyReceipt
<1>3. ASSUME NEW m \in Launcher \ {l}
      PROVE  InTurn(m)'
  <2>1. NewReceipt(m)' = NewReceipt(m)
    BY DEF NewReceipt
  <2>2. InTurn(m)
    BY DEF IInv, WrittenInTurn
  <2>3. m \notin disturbed' => m \notin disturbed
    BY DEF OnlyReceipt
  <2>4. \A u \in Update : of'[u] = m => of[u] = m /\ upc'[u] = upc[u] /\ copy'[u] = copy[u]
    BY DEF OnlyReceipt
  <2>5. /\ file'[m] = file[m] /\ lpc'[m] = lpc[m] /\ Latest(m)' = Latest(m)
    BY DEF OnlyReceipt
  <2>6. \A u \in Updating(m) : u \in Update /\ of'[u] = m
    BY <1>1 DEF Updating
  <2> QED  BY <1>1, <2>1, <2>2, <2>3, <2>4, <2>5, <2>6 DEF InTurn
<1>4. ASSUME NEW u \in Update, of'[u] # l
      PROVE  UpdateMade(u)' /\ RevocationRead(u)'
  <2>1. upc'[u] = upc[u] /\ of'[u] = of[u] /\ copy'[u] = copy[u]
    BY <1>4 DEF OnlyReceipt
  <2>2. UpdateMade(u) /\ RevocationRead(u)
    BY DEF IInv, ReceiptsAreMade, RevocationsAreRead
  <2>3. UpdateMade(u)'
    BY <1>4, <2>1, <2>2 DEF UpdateMade, OnlyReceipt, Writing
  <2>4. CASE upc[u] = "done"
    <3>1. of[u] \in Launcher \ {l}
      BY <1>4, <2>1, <2>2, <2>4 DEF UpdateMade
    <3>2. \A v \in Updating(of[u]) : copy'[v] = copy[v]
      BY <3>1, <1>1 DEF OnlyReceipt, Updating
    <3>3. /\ file'[of[u]] = file[of[u]] /\ Updating(of[u])' = Updating(of[u])
          /\ of[u] \notin disturbed' => of[u] \notin disturbed
      BY <1>1, <2>1, <3>1 DEF OnlyReceipt, Updating
    <3> QED  BY <2>1, <2>2, <2>3, <3>2, <3>3 DEF RevocationRead
  <2> QED  BY <2>1, <2>3, <2>4 DEF RevocationRead
<1> QED  BY <1>2, <1>3, <1>4

\* So that what is left to show of such a step is about its receipt.
LEMMA OneReceipt ==
    ASSUME IInv, NEW l \in Launcher, OnlyReceipt(l), answer' = answer,
           EngineTyped', FilesTyped', PlacesTyped', AnswersAreRecorded',
           ReceiptMade(l)', InTurn(l)',
           \A u \in Update : of'[u] = l => UpdateMade(u)' /\ RevocationRead(u)'
    PROVE  IInv'
<1>1. \A m \in Launcher : ReceiptMade(m)' /\ InTurn(m)'
  BY OthersStay
<1>2. \A u \in Update : UpdateMade(u)' /\ RevocationRead(u)'
  BY OthersStay
<1> QED  BY <1>1, <1>2 DEF IInv, ReceiptsAreMade, WrittenInTurn, RevocationsAreRead

-----------------------------------------------------------------------------
(* create-receipt.                                                         *)

\* The log has no new version.
LEMMA LogStays ==
    ASSUME UNCHANGED log
    PROVE  \A m : Versions(m)' = Versions(m) /\ Latest(m)' = Latest(m)
BY DEF Versions, Latest

\* The launcher that makes a receipt has its answer.
LEMMA CreatorMoves ==
    ASSUME IInv, NEW l \in Launcher, NEW to \in {"creating", "logging", "run", "error"},
           lpc[l] \in {"create", "creating", "logging"}, lpc' = [lpc EXCEPT ![l] = to],
           UNCHANGED <<decisions, holdQueue, ask, epc, answer, mode, given, upc, of>>
    PROVE  /\ EngineTyped' /\ PlacesTyped' /\ AnswersAreRecorded'
           /\ lpc'[l] = to /\ \A m \in Launcher \ {l} : lpc'[m] = lpc[m]
<1>1. to \in Places
  BY DEF Places, Created
<1>2. mode' \in [Launcher -> Modes \cup {"none"}] /\ given' \in [Launcher -> BOOLEAN]
  BY DEF IInv, PlacesTyped
<1>3. PlacesTyped' /\ lpc'[l] = to /\ \A m \in Launcher \ {l} : lpc'[m] = lpc[m]
  BY <1>1, <1>2, LauncherTyped
<1>4. lpc[l] \in Granted /\ epc[l] \in {"idle", "exited"}
  BY DEF IInv, AnswersAreRecorded, Granted
<1>5. AnswersAreRecorded'
  BY <1>3, <1>4, AnswersStay
<1> QED  BY <1>3, <1>5, EngineTypedStays

\* Until its launcher has logged it, nobody updates a receipt undisturbed.
LEMMA NobodyUpdates ==
    ASSUME IInv, NEW l \in Launcher, lpc[l] \notin Created, l \notin disturbed
    PROVE  /\ Updating(l) = {}
           /\ \A u \in Update : of[u] = l => upc[u] \notin Writing \cup {"done"}
BY DEF IInv, WrittenInTurn, InTurn, Updating

LEMMA OpenPreserves ==
    ASSUME IInv, NEW l \in Launcher, OpenReceipt(l)
    PROVE  IInv'
<1>1. /\ lpc[l] = "create" /\ lpc' = [lpc EXCEPT ![l] = "creating"]
      /\ file' = [file EXCEPT ![l] = EmptyFile]
      /\ UNCHANGED <<decisions, holdQueue, ask, epc, answer, log, mode, given, upc, of, copy,
                     disturbed>>
  BY DEF OpenReceipt, GotoL, engineVars, updateVars
<1>2. /\ EngineTyped' /\ PlacesTyped' /\ AnswersAreRecorded'
      /\ lpc'[l] = "creating" /\ \A m \in Launcher \ {l} : lpc'[m] = lpc[m]
  BY <1>1, CreatorMoves
<1>3. EmptyFile \in ReceiptType /\ EmptyFile.status = "empty"
  BY NewReceipts
<1>4. FilesTyped' /\ file'[l] = EmptyFile /\ \A m \in Launcher \ {l} : file'[m] = file[m]
  BY <1>1, <1>3 DEF IInv, FilesTyped
<1>5. \A m : Versions(m)' = Versions(m) /\ Latest(m)' = Latest(m)
  BY <1>1, LogStays
<1>6. OnlyReceipt(l)
  BY <1>1, <1>2, <1>4, <1>5 DEF OnlyReceipt
<1>7. ReceiptMade(l)'
  BY <1>2, <1>3, <1>4 DEF ReceiptMade, Before, Created
<1>8. Updating(l)' = Updating(l)
  BY <1>1 DEF Updating
<1>9. l \notin disturbed => \A u \in Update : of[u] = l => upc[u] \notin Writing \cup {"done"}
  BY <1>1, NobodyUpdates DEF Created
<1>10. InTurn(l)'
  BY <1>1, <1>2, <1>4, <1>8, <1>9 DEF InTurn, Created, Updating
<1>11. ASSUME NEW u \in Update, of'[u] = l
       PROVE  UpdateMade(u)' /\ RevocationRead(u)'
  <2>1. UpdateMade(u)
    BY DEF IInv, ReceiptsAreMade
  <2>2. UpdateMade(u)'
    BY <1>1, <1>3, <1>4, <1>5, <1>11, <2>1 DEF UpdateMade
  <2> QED  BY <1>1, <1>9, <1>11, <2>2 DEF RevocationRead
<1> QED  BY <1>1, <1>2, <1>4, <1>6, <1>7, <1>10, <1>11, OneReceipt

LEMMA WritePreserves ==
    ASSUME IInv, NEW l \in Launcher, WriteReceipt(l)
    PROVE  IInv'
<1>1. /\ lpc[l] = "creating" /\ lpc' = [lpc EXCEPT ![l] = "logging"]
      /\ file' = [file EXCEPT ![l] = NewReceipt(l)]
      /\ UNCHANGED <<decisions, holdQueue, ask, epc, answer, log, mode, given, upc, of, copy,
                     disturbed>>
  BY DEF WriteReceipt, GotoL, engineVars, updateVars
<1>2. /\ EngineTyped' /\ PlacesTyped' /\ AnswersAreRecorded'
      /\ lpc'[l] = "logging" /\ \A m \in Launcher \ {l} : lpc'[m] = lpc[m]
  BY <1>1, CreatorMoves
<1>3. NewReceipt(l) \in ReceiptType /\ NewReceipt(l).status = "active"
  BY NewReceipts, ProcessAssumption DEF IInv, EngineTyped, AnswerType, NewReceipt
<1>4. NewReceipt(l)' = NewReceipt(l)
  BY <1>1 DEF NewReceipt
<1>5. FilesTyped' /\ file'[l] = NewReceipt(l) /\ \A m \in Launcher \ {l} : file'[m] = file[m]
  BY <1>1, <1>3 DEF IInv, FilesTyped
<1>6. \A m : Versions(m)' = Versions(m) /\ Latest(m)' = Latest(m)
  BY <1>1, LogStays
<1>7. OnlyReceipt(l)
  BY <1>1, <1>2, <1>5, <1>6 DEF OnlyReceipt
<1>8. ReceiptMade(l)'
  BY <1>2, <1>3, <1>5 DEF ReceiptMade, Before, Created
<1>9. l \notin disturbed => /\ Updating(l)' = {}
                            /\ \A u \in Update : of[u] = l => upc[u] \notin Writing \cup {"done"}
  BY <1>1, NobodyUpdates DEF Created, Updating
<1>10. InTurn(l)'
  BY <1>1, <1>2, <1>4, <1>5, <1>9 DEF InTurn, Created
<1>11. ASSUME NEW u \in Update, of'[u] = l
       PROVE  UpdateMade(u)' /\ RevocationRead(u)'
  <2>1. UpdateMade(u)
    BY DEF IInv, ReceiptsAreMade
  <2>2. UpdateMade(u)'
    BY <1>1, <1>3, <1>5, <1>6, <1>11, <2>1 DEF UpdateMade
  <2> QED  BY <1>1, <1>9, <1>11, <2>2 DEF RevocationRead
<1> QED  BY <1>1, <1>2, <1>5, <1>7, <1>8, <1>10, <1>11, OneReceipt

LEMMA LogPreserves ==
    ASSUME IInv, NEW l \in Launcher, LogReceipt(l)
    PROVE  IInv'
<1>1. /\ lpc[l] = "logging" /\ lpc' = [lpc EXCEPT ![l] = "run"]
      /\ AppendLog(l, NewReceipt(l))
      /\ UNCHANGED <<decisions, holdQueue, ask, epc, answer, file, mode, given, upc, of, copy,
                     disturbed>>
  BY DEF LogReceipt, GotoL, engineVars, updateVars
<1>2. /\ EngineTyped' /\ PlacesTyped' /\ AnswersAreRecorded'
      /\ lpc'[l] = "run" /\ \A m \in Launcher \ {l} : lpc'[m] = lpc[m]
  BY <1>1, CreatorMoves
<1>3. NewReceipt(l) \in ReceiptType /\ Sound(NewReceipt(l))
  BY NewReceipts, ProcessAssumption DEF IInv, EngineTyped, AnswerType, NewReceipt
<1>4. NewReceipt(l)' = NewReceipt(l)
  BY <1>1 DEF NewReceipt
<1>5. /\ log' \in Seq([id : Launcher, receipt : ReceiptType])
      /\ \A m \in Launcher : \A i \in Versions(m) : i \in Versions(m)' /\ log'[i] = log[i]
      /\ \E i \in Versions(l)' : log'[i].receipt = NewReceipt(l)
      /\ Latest(l)' = {NewReceipt(l)}
      /\ \A m \in Launcher \ {l} : Latest(m)' = Latest(m)
  BY <1>1, <1>3, LoggedVersion DEF IInv
<1>6. FilesTyped'
  BY <1>1, <1>5 DEF IInv, FilesTyped
<1>7. OnlyReceipt(l)
  BY <1>1, <1>2, <1>5 DEF OnlyReceipt
<1>8. ReceiptMade(l)'
  <2>1. file'[l].status # "missing"
    BY <1>1 DEF IInv, ReceiptsAreMade, ReceiptMade
  <2> QED  BY <1>2, <1>4, <1>5, <2>1 DEF ReceiptMade, Before, Created
<1>9. l \notin disturbed =>
          /\ Updating(l)' = {} /\ file'[l] = NewReceipt(l)
          /\ \A u \in Update : of[u] = l => upc[u] \notin Writing \cup {"done"}
  BY <1>1, NobodyUpdates DEF Created, Updating, IInv, WrittenInTurn, InTurn
<1>10. InTurn(l)'
  BY <1>1, <1>2, <1>3, <1>5, <1>9 DEF InTurn, Created
<1>11. ASSUME NEW u \in Update, of'[u] = l
       PROVE  UpdateMade(u)' /\ RevocationRead(u)'
  <2>1. UpdateMade(u)
    BY DEF IInv, ReceiptsAreMade
  <2>2. UpdateMade(u)'
    BY <1>1, <1>5, <1>11, <2>1 DEF UpdateMade
  <2> QED  BY <1>1, <1>9, <1>11, <2>2 DEF RevocationRead
<1> QED  BY <1>1, <1>2, <1>6, <1>7, <1>8, <1>10, <1>11, OneReceipt

-----------------------------------------------------------------------------
(* Failures and kills: the receipt is disturbed, and what was logged stays. *)

LEMMA CreateFailsPreserves ==
    ASSUME IInv, NEW l \in Launcher, CreateFails(l)
    PROVE  IInv'
<1>1. /\ lpc[l] \in {"create", "creating", "logging"} /\ lpc' = [lpc EXCEPT ![l] = "error"]
      /\ disturbed' = disturbed \cup {l}
      /\ UNCHANGED <<decisions, holdQueue, ask, epc, answer, file, log, mode, given, upc, of, copy>>
  BY DEF CreateFails, GotoL, engineVars, updateVars
<1>2. /\ EngineTyped' /\ PlacesTyped' /\ AnswersAreRecorded'
      /\ lpc'[l] = "error" /\ \A m \in Launcher \ {l} : lpc'[m] = lpc[m]
  BY <1>1, CreatorMoves
<1>3. \A m : Versions(m)' = Versions(m) /\ Latest(m)' = Latest(m)
  BY <1>1, LogStays
<1>4. OnlyReceipt(l) /\ FilesTyped'
  BY <1>1, <1>2, <1>3 DEF OnlyReceipt, IInv, FilesTyped
<1>5. ReceiptMade(l)' /\ InTurn(l)'
  BY <1>1, <1>2 DEF ReceiptMade, InTurn, Before, Created
<1>6. ASSUME NEW u \in Update, of'[u] = l
      PROVE  UpdateMade(u)' /\ RevocationRead(u)'
  <2>1. UpdateMade(u)
    BY DEF IInv, ReceiptsAreMade
  <2>2. UpdateMade(u)'
    BY <1>1, <1>3, <1>6, <2>1 DEF UpdateMade
  <2> QED  BY <1>1, <1>6, <2>2 DEF RevocationRead
<1> QED  BY <1>1, <1>2, <1>4, <1>5, <1>6, OneReceipt

LEMMA KillPreserves ==
    ASSUME IInv, NEW l \in Launcher, KillLauncher(l)
    PROVE  IInv'
<1>1. /\ lpc[l] # "idle" /\ lpc' = [lpc EXCEPT ![l] = "killed"]
      /\ upc' = [upc EXCEPT ![l] = "failed"] /\ epc' = [epc EXCEPT ![l] = "exited"]
      /\ disturbed' = disturbed \cup {l}
      /\ UNCHANGED <<decisions, holdQueue, ask, answer, file, log, mode, given, of, copy>>
  BY DEF KillLauncher
<1>2. l \in Process /\ l \in Update /\ of[l] = l
  BY ProcessAssumption DEF Update, IInv, PlacesTyped
<1>3. EngineTyped' /\ epc'[l] = "exited" /\ \A m \in Launcher \ {l} : epc'[m] = epc[m]
  BY <1>1, <1>2, ProcessAssumption DEF IInv, EngineTyped
<1>4. upc'[l] = "failed" /\ \A u \in Update \ {l} : upc'[u] = upc[u]
  BY <1>1, <1>2 DEF IInv, PlacesTyped
<1>5. PlacesTyped' /\ lpc'[l] = "killed" /\ \A m \in Launcher \ {l} : lpc'[m] = lpc[m]
  BY <1>1 DEF IInv, PlacesTyped
<1>6. AnswersAreRecorded'
  BY <1>1, <1>3, <1>5, AnswersStay DEF Granted, Created
<1>7. \A m : Versions(m)' = Versions(m) /\ Latest(m)' = Latest(m)
  BY <1>1, LogStays
<1>8. OnlyReceipt(l) /\ FilesTyped'
  BY <1>1, <1>2, <1>4, <1>5, <1>7 DEF OnlyReceipt, IInv, FilesTyped
<1>9. ReceiptMade(l)' /\ InTurn(l)'
  BY <1>1, <1>5 DEF ReceiptMade, InTurn, Before, Created
<1>10. ASSUME NEW u \in Update, of'[u] = l
       PROVE  UpdateMade(u)' /\ RevocationRead(u)'
  <2>1. UpdateMade(u)
    BY DEF IInv, ReceiptsAreMade
  <2>2. upc'[u] = "failed" \/ upc'[u] = upc[u]
    BY <1>4
  <2>3. UpdateMade(u)'
    BY <1>1, <1>7, <1>10, <2>1, <2>2 DEF UpdateMade, Writing
  <2> QED  BY <1>1, <1>10, <2>3 DEF RevocationRead
<1> QED  BY <1>1, <1>3, <1>5, <1>6, <1>8, <1>9, <1>10, OneReceipt

LEMMA UpdateFailsPreserves ==
    ASSUME IInv, NEW u \in Update, UpdateFails(u)
    PROVE  IInv'
<1>1. /\ upc[u] \in Writing /\ upc' = [upc EXCEPT ![u] = "failed"]
      /\ disturbed' = disturbed \cup {of[u]}
      /\ UNCHANGED <<decisions, holdQueue, ask, epc, answer, file, log, lpc, mode, given, of, copy>>
  BY DEF UpdateFails, engineVars, launchVars
<1>2. of[u] \in Launcher
  BY <1>1 DEF IInv, ReceiptsAreMade, UpdateMade
<1>3. PICK l \in Launcher : l = of[u]
  BY <1>2
<1>4. upc'[u] = "failed" /\ \A v \in Update \ {u} : upc'[v] = upc[v]
  BY <1>1 DEF IInv, PlacesTyped
<1>5. PlacesTyped'
  BY <1>1 DEF IInv, PlacesTyped
<1>6. EngineTyped' /\ AnswersAreRecorded' /\ FilesTyped'
  BY <1>1, EngineTypedStays, AnswersStay DEF IInv, FilesTyped
<1>7. \A m : Versions(m)' = Versions(m) /\ Latest(m)' = Latest(m)
  BY <1>1, LogStays
<1>8. OnlyReceipt(l)
  BY <1>1, <1>3, <1>4, <1>7 DEF OnlyReceipt
<1>9. ReceiptMade(l)' /\ InTurn(l)'
  <2>1. ReceiptMade(l)
    BY DEF IInv, ReceiptsAreMade
  <2>2. NewReceipt(l)' = NewReceipt(l)
    BY <1>1 DEF NewReceipt
  <2> QED  BY <1>1, <1>3, <1>7, <2>1, <2>2 DEF ReceiptMade, InTurn
<1>10. ASSUME NEW v \in Update, of'[v] = l
       PROVE  UpdateMade(v)' /\ RevocationRead(v)'
  <2>1. UpdateMade(v)
    BY DEF IInv, ReceiptsAreMade
  <2>2. upc'[v] = "failed" \/ upc'[v] = upc[v]
    BY <1>4
  <2>3. UpdateMade(v)'
    BY <1>1, <1>7, <1>10, <2>1, <2>2 DEF UpdateMade, Writing
  <2> QED  BY <1>1, <1>3, <1>10, <2>3 DEF RevocationRead
<1> QED  BY <1>1, <1>5, <1>6, <1>8, <1>9, <1>10, OneReceipt

-----------------------------------------------------------------------------
(* update-receipt.                                                         *)

\* An update that fails at once has nothing to do with any receipt.
LEMMA ReadPreserves ==
    ASSUME IInv, NEW u \in Update, NEW l \in Launcher, NEW status \in UpdateStatuses,
           u \in Launcher => u = l,
           ReadReceipt(u, l, status),
           PlacesTyped', AnswersAreRecorded',
           \A m \in Launcher \ {l} : lpc'[m] = lpc[m],
           \/ lpc'[l] = lpc[l]
           \/ lpc[l] \in Created /\ lpc'[l] \in Created
    PROVE  IInv'
<1>1. /\ upc[u] = "idle" /\ of' = [of EXCEPT ![u] = l]
      /\ UNCHANGED <<decisions, holdQueue, ask, epc, answer, file, log, mode, given>>
  BY DEF ReadReceipt, engineVars
<1>2. EngineTyped'
  BY <1>1, EngineTypedStays
<1>3. \A m : Versions(m)' = Versions(m) /\ Latest(m)' = Latest(m)
  BY <1>1, LogStays
<1>4. of'[u] = l /\ \A v \in Update \ {u} : of'[v] = of[v]
  BY <1>1 DEF IInv, PlacesTyped
<1>5. \/ /\ upc' = [upc EXCEPT ![u] = "failed"] /\ copy' = copy /\ disturbed' = disturbed
      \/ /\ file[l].status \notin {"missing", "empty"}
         /\ upc' = [upc EXCEPT ![u] = "open"]
         /\ copy' = [copy EXCEPT ![u] = Stamp(file[l], status)]
         /\ disturbed' = IF Updating(l) # {} \/ lpc[l] = "logging"
                         THEN disturbed \cup {l} ELSE disturbed
  BY DEF ReadReceipt
<1>6. file[l] \in ReceiptType
  BY DEF IInv, FilesTyped
<1>7. /\ Stamp(file[l], status) \in ReceiptType /\ Sound(Stamp(file[l], status))
      /\ file[l].revokedAt => Stamp(file[l], status).revokedAt
  BY <1>6, StampedReceipt
<1>8. FilesTyped'
  BY <1>1, <1>5, <1>7 DEF IInv, FilesTyped
<1>9. /\ \A v \in Update \ {u} : upc'[v] = upc[v] /\ copy'[v] = copy[v]
      /\ upc'[u] \in {"failed", "open"}
      /\ upc'[u] = "open" => copy'[u] = Stamp(file[l], status)
  BY <1>5 DEF IInv, PlacesTyped, FilesTyped
<1>10. OnlyReceipt(l)
  BY <1>1, <1>3, <1>4, <1>5, <1>9 DEF OnlyReceipt
<1>11. ReceiptMade(l)'
  <2>1. ReceiptMade(l) /\ NewReceipt(l)' = NewReceipt(l)
    BY <1>1 DEF IInv, ReceiptsAreMade, NewReceipt
  <2> QED  BY <1>1, <1>3, <2>1 DEF ReceiptMade, Before, Created
<1>12. ASSUME NEW v \in Update, of'[v] = l
       PROVE  UpdateMade(v)'
  <2>1. UpdateMade(v)
    BY DEF IInv, ReceiptsAreMade
  <2>2. CASE v = u
    <3>1. upc'[u] = "open" => file[l].status # "missing" /\ Sound(copy'[u])
      BY <1>5, <1>7, <1>9 DEF IInv, PlacesTyped
    <3>2. of'[u] = l /\ file' = file /\ upc'[u] \in {"failed", "open"}
      BY <1>1, <1>4, <1>9
    <3> QED  BY <2>2, <3>1, <3>2 DEF UpdateMade, Writing
  <2>3. CASE v # u
    BY <1>1, <1>3, <1>4, <1>9, <2>1, <2>3 DEF UpdateMade
  <2> QED  BY <2>2, <2>3
<1>13. CASE upc'[u] = "failed"
  <2>1. disturbed' = disturbed
    BY <1>5, <1>13 DEF IInv, PlacesTyped
  <2>2. Updating(l)' = Updating(l)
    BY <1>1, <1>4, <1>9, <1>13 DEF Updating, Writing
  <2>3. InTurn(l)'
    <3>1. InTurn(l) /\ NewReceipt(l)' = NewReceipt(l)
      BY <1>1 DEF IInv, WrittenInTurn, NewReceipt
    <3>2. \A v \in Update : of'[v] = l /\ upc'[v] \in Writing \cup {"done"} =>
              of[v] = l /\ upc[v] = upc'[v]
      BY <1>4, <1>9, <1>13 DEF Writing
    <3>3. \A v \in Updating(l) : upc'[v] = upc[v] /\ copy'[v] = copy[v]
      BY <1>1, <1>9 DEF Updating, Writing
    <3> QED  BY <1>1, <1>3, <2>1, <2>2, <3>1, <3>2, <3>3 DEF InTurn, Created
  <2>4. ASSUME NEW v \in Update, of'[v] = l
        PROVE  RevocationRead(v)'
    <3>1. RevocationRead(v)
      BY DEF IInv, RevocationsAreRead
    <3>2. \A w \in Updating(l) : copy'[w] = copy[w]
      BY <1>1, <1>9 DEF Updating, Writing
    <3>3. CASE v = u
      BY <1>13, <3>3 DEF RevocationRead
    <3>4. CASE v # u
      BY <1>1, <1>4, <1>9, <2>1, <2>2, <2>4, <3>1, <3>2, <3>4 DEF RevocationRead
    <3> QED  BY <3>3, <3>4
  <2> QED  BY <1>1, <1>2, <1>8, <1>10, <1>11, <1>12, <2>3, <2>4, OneReceipt
<1>14. CASE upc'[u] = "open"
  <2>1. /\ file[l].status \notin {"missing", "empty"}
        /\ Updating(l) # {} \/ lpc[l] = "logging" => l \in disturbed'
        /\ l \in disturbed => l \in disturbed'
    BY <1>5, <1>14 DEF IInv, PlacesTyped
  <2>2. Updating(l)' = Updating(l) \cup {u}
    BY <1>1, <1>4, <1>9, <1>14 DEF Updating, Writing
  <2>3. l \notin disturbed' => /\ Updating(l)' = {u} /\ lpc[l] \in Created
    <3> SUFFICES ASSUME l \notin disturbed'
                 PROVE  Updating(l)' = {u} /\ lpc[l] \in Created
      OBVIOUS
    <3>1. Updating(l) = {} /\ lpc[l] # "logging" /\ l \notin disturbed
      BY <2>1
    <3>2. ReceiptMade(l) /\ InTurn(l)
      BY DEF IInv, ReceiptsAreMade, WrittenInTurn
    <3>3. NoFile.status = "missing" /\ EmptyFile.status = "empty"
      BY DEF NoFile, EmptyFile, Receipt
    <3>4. lpc[l] \in Places
      BY DEF IInv, PlacesTyped, Places
    <3>5. lpc[l] \notin Before \cup {"error", "creating", "killed"}
      BY <2>1, <3>1, <3>2, <3>3 DEF ReceiptMade, InTurn
    <3> QED  BY <2>2, <3>1, <3>4, <3>5 DEF Places
  <2>4. InTurn(l)'
    <3> SUFFICES ASSUME l \notin disturbed'
                 PROVE  InTurn(l)'
      BY DEF InTurn
    <3>1. lpc'[l] \in Created
      BY <2>3
    <3> QED  BY <1>14, <2>3, <3>1 DEF InTurn, Created
  <2>5. ASSUME NEW v \in Update, of'[v] = l
        PROVE  RevocationRead(v)'
    <3> SUFFICES ASSUME upc'[v] = "done", copy'[v].revokedAt, l \notin disturbed'
                 PROVE  copy'[u].revokedAt
      BY <2>3, <2>5 DEF RevocationRead
    <3>1. v # u /\ upc[v] = "done" /\ copy[v].revokedAt /\ of[v] = l /\ l \notin disturbed
      BY <1>4, <1>9, <1>14, <2>1, <2>5
    <3>2. Updating(l) = {}
      BY <2>1
    <3>3. RevocationRead(v)
      BY DEF IInv, RevocationsAreRead
    <3>4. file[l].revokedAt
      BY <3>1, <3>2, <3>3 DEF RevocationRead
    <3> QED  BY <1>7, <1>9, <1>14, <3>4
  <2> QED  BY <1>1, <1>2, <1>8, <1>10, <1>11, <1>12, <2>4, <2>5, OneReceipt
<1> QED  BY <1>9, <1>13, <1>14

\* One write of an update that is under way.
LEMMA WriterFacts ==
    ASSUME IInv, NEW u \in Update, NEW to \in {"write", "log", "done"},
           upc[u] \in Writing, upc' = [upc EXCEPT ![u] = to],
           UNCHANGED <<engineVars, launchVars, of, copy, disturbed>>
    PROVE  /\ EngineTyped' /\ PlacesTyped' /\ AnswersAreRecorded'
           /\ of[u] \in Launcher /\ copy[u] \in ReceiptType /\ Sound(copy[u])
           /\ upc'[u] = to /\ \A v \in Update \ {u} : upc'[v] = upc[v]
           /\ UNCHANGED <<answer, lpc, of, copy, disturbed>>
<1>1. UNCHANGED <<decisions, holdQueue, ask, epc, answer, lpc, mode, given, of, copy, disturbed>>
  BY DEF engineVars, launchVars
<1>2. upc'[u] = to /\ \A v \in Update \ {u} : upc'[v] = upc[v]
  BY DEF IInv, PlacesTyped
<1>3. PlacesTyped'
  BY <1>1 DEF IInv, PlacesTyped, Writing
<1>4. EngineTyped' /\ AnswersAreRecorded'
  BY <1>1, EngineTypedStays, AnswersStay
<1>5. of[u] \in Launcher /\ Sound(copy[u]) /\ copy[u] \in ReceiptType
  BY DEF IInv, ReceiptsAreMade, UpdateMade, FilesTyped
<1> QED  BY <1>1, <1>2, <1>3, <1>4, <1>5

\* The receipt is emptied, or what was read and stamped is written back.
LEMMA WriteBackPreserves ==
    ASSUME IInv, NEW u \in Update, Truncate(u) \/ WriteBack(u)
    PROVE  IInv'
<1>1. PICK l : l = of[u]
  OBVIOUS
<1>2. \E to \in {"write", "log"} :
          /\ upc[u] \in Writing
          /\ upc' = [upc EXCEPT ![u] = to]
          /\ to = "write" => file' = [file EXCEPT ![l] = EmptyFile]
          /\ to = "log" => file' = [file EXCEPT ![l] = copy[u]]
          /\ UNCHANGED <<engineVars, log, launchVars, of, copy, disturbed>>
  BY <1>1 DEF Truncate, WriteBack, Writing
<1>3. PICK to \in {"write", "log"} :
          /\ upc[u] \in Writing
          /\ upc' = [upc EXCEPT ![u] = to]
          /\ to = "write" => file' = [file EXCEPT ![l] = EmptyFile]
          /\ to = "log" => file' = [file EXCEPT ![l] = copy[u]]
          /\ UNCHANGED <<engineVars, log, launchVars, of, copy, disturbed>>
  BY <1>2
<1>4. /\ EngineTyped' /\ PlacesTyped' /\ AnswersAreRecorded'
      /\ l \in Launcher /\ copy[u] \in ReceiptType /\ Sound(copy[u])
      /\ upc'[u] = to /\ \A v \in Update \ {u} : upc'[v] = upc[v]
      /\ UNCHANGED <<answer, lpc, of, copy, disturbed>>
  BY <1>1, <1>3, WriterFacts
<1>5. EmptyFile \in ReceiptType /\ EmptyFile.status = "empty"
  BY NewReceipts
<1>6. /\ FilesTyped' /\ file'[l].status # "missing"
      /\ \A m \in Launcher \ {l} : file'[m] = file[m]
      /\ to = "log" => file'[l] = copy[u]
  <2>1. Sound(copy[u]) => copy[u].status # "missing"
    BY DEF Sound, UpdateStatuses
  <2> QED  BY <1>3, <1>4, <1>5, <2>1 DEF IInv, FilesTyped
<1>7. \A m : Versions(m)' = Versions(m) /\ Latest(m)' = Latest(m)
  BY <1>3, LogStays
<1>8. OnlyReceipt(l)
  BY <1>1, <1>3, <1>4, <1>6, <1>7 DEF OnlyReceipt
<1>9. Updating(l)' = Updating(l) /\ u \in Updating(l)
  BY <1>1, <1>3, <1>4 DEF Updating, Writing
<1>10. lpc[l] \notin Before
  BY <1>1, <1>3 DEF IInv, ReceiptsAreMade, ReceiptMade, UpdateMade, NoFile, Receipt
<1>11. ReceiptMade(l)'
  <2>1. ReceiptMade(l) /\ NewReceipt(l)' = NewReceipt(l)
    BY <1>4 DEF IInv, ReceiptsAreMade, NewReceipt
  <2> QED  BY <1>3, <1>4, <1>6, <1>7, <1>10, <2>1 DEF ReceiptMade
<1>12. l \notin disturbed => Updating(l) = {u} /\ lpc[l] \in Created
  BY <1>1, <1>3, <1>4, <1>9 DEF IInv, WrittenInTurn, InTurn, Updating
<1>13. InTurn(l)'
  BY <1>4, <1>6, <1>9, <1>12 DEF InTurn, Created
<1>14. ASSUME NEW v \in Update, of'[v] = l
       PROVE  UpdateMade(v)' /\ RevocationRead(v)'
  <2>1. UpdateMade(v) /\ RevocationRead(v)
    BY DEF IInv, ReceiptsAreMade, RevocationsAreRead
  <2>2. UpdateMade(v)'
    BY <1>3, <1>4, <1>6, <1>7, <1>14, <2>1 DEF UpdateMade, Writing
  <2>3. RevocationRead(v)'
    BY <1>3, <1>4, <1>9, <1>14, <2>1 DEF RevocationRead
  <2> QED  BY <2>2, <2>3
<1> QED  BY <1>4, <1>6, <1>8, <1>11, <1>13, <1>14, OneReceipt

LEMMA LogUpdatePreserves ==
    ASSUME IInv, NEW u \in Update, LogUpdate(u)
    PROVE  IInv'
<1>1. PICK l : l = of[u]
  OBVIOUS
<1>2. /\ upc[u] = "log" /\ upc[u] \in Writing /\ upc' = [upc EXCEPT ![u] = "done"]
      /\ AppendLog(l, copy[u]) /\ file' = file
      /\ UNCHANGED <<engineVars, launchVars, of, copy, disturbed>>
  BY <1>1 DEF LogUpdate, Writing
<1>3. /\ EngineTyped' /\ PlacesTyped' /\ AnswersAreRecorded'
      /\ l \in Launcher /\ copy[u] \in ReceiptType /\ Sound(copy[u])
      /\ upc'[u] = "done" /\ \A v \in Update \ {u} : upc'[v] = upc[v]
      /\ UNCHANGED <<answer, lpc, of, copy, disturbed>>
  BY <1>1, <1>2, WriterFacts
<1>4. /\ log' \in Seq([id : Launcher, receipt : ReceiptType])
      /\ \A m \in Launcher : \A i \in Versions(m) : i \in Versions(m)' /\ log'[i] = log[i]
      /\ \E i \in Versions(l)' : log'[i].receipt = copy[u]
      /\ Latest(l)' = {copy[u]}
      /\ \A m \in Launcher \ {l} : Latest(m)' = Latest(m)
  BY <1>2, <1>3, LoggedVersion DEF IInv
<1>5. FilesTyped'
  BY <1>2, <1>3, <1>4 DEF IInv, FilesTyped
<1>6. OnlyReceipt(l)
  BY <1>1, <1>2, <1>3, <1>4 DEF OnlyReceipt
<1>7. Updating(l)' = Updating(l) \ {u} /\ u \in Updating(l)
  BY <1>1, <1>2, <1>3 DEF Updating, Writing
<1>8. ReceiptMade(l)'
  <2>1. ReceiptMade(l) /\ NewReceipt(l)' = NewReceipt(l)
    BY <1>3 DEF IInv, ReceiptsAreMade, NewReceipt
  <2> QED  BY <1>2, <1>3, <1>4, <2>1 DEF ReceiptMade
<1>9. l \notin disturbed => Updating(l) = {u} /\ lpc[l] \in Created /\ file[l] = copy[u]
  <2> SUFFICES ASSUME l \notin disturbed
               PROVE  Updating(l) = {u} /\ lpc[l] \in Created /\ file[l] = copy[u]
    OBVIOUS
  <2>1. InTurn(l)
    BY <1>3 DEF IInv, WrittenInTurn
  <2>2. lpc[l] \in Created
    BY <1>1, <1>2, <2>1 DEF InTurn
  <2>3. \A v \in Updating(l) : v = u
    BY <1>7, <2>1 DEF InTurn
  <2>4. file[l] = copy[u]
    BY <1>2, <1>7, <2>1 DEF InTurn
  <2> QED  BY <1>7, <2>2, <2>3, <2>4
<1>10. InTurn(l)'
  BY <1>2, <1>3, <1>4, <1>7, <1>9 DEF InTurn, Created
<1>11. ASSUME NEW v \in Update, of'[v] = l
       PROVE  UpdateMade(v)' /\ RevocationRead(v)'
  <2>1. UpdateMade(v) /\ RevocationRead(v)
    BY DEF IInv, ReceiptsAreMade, RevocationsAreRead
  <2>2. UpdateMade(v)'
    <3>1. CASE v = u
      BY <1>2, <1>3, <1>4, <1>11, <3>1 DEF UpdateMade, Writing
    <3>2. CASE v # u
      BY <1>2, <1>3, <1>4, <1>11, <2>1, <3>2 DEF UpdateMade
    <3> QED  BY <3>1, <3>2
  <2>3. RevocationRead(v)'
    <3> SUFFICES ASSUME upc'[v] = "done", copy[v].revokedAt, l \notin disturbed
                 PROVE  file[l].revokedAt
      BY <1>2, <1>3, <1>7, <1>9, <1>11 DEF RevocationRead
    <3>1. CASE v = u
      BY <1>9, <3>1
    <3>2. CASE v # u
      <4>1. upc[v] = "done" /\ of[v] = l
        BY <1>3, <1>11, <3>2
      <4>2. copy[u].revokedAt
        BY <1>7, <2>1, <4>1 DEF RevocationRead
      <4> QED  BY <1>9, <4>2
    <3> QED  BY <3>1, <3>2
  <2> QED  BY <2>2, <2>3
<1> QED  BY <1>3, <1>5, <1>6, <1>8, <1>10, <1>11, OneReceipt

LEMMA UpdatePreserves ==
    ASSUME IInv, NEW u \in Update, UpdateStep(u)
    PROVE  IInv'
BY WriteBackPreserves, LogUpdatePreserves DEF UpdateStep

LEMMA LauncherUpdatePreserves ==
    ASSUME IInv, NEW l \in Launcher, UpdateByLauncher(l)
    PROVE  IInv'
<1>1. PICK status \in {"ended", "failed"} :
          lpc[l] = status /\ lpc' = [lpc EXCEPT ![l] = "updating"] /\ ReadReceipt(l, l, status)
  BY DEF UpdateByLauncher, GotoL
<1>2. /\ UNCHANGED <<decisions, holdQueue, ask, epc, answer, mode, given>>
      /\ of' = [of EXCEPT ![l] = l]
      /\ upc' = [upc EXCEPT ![l] = "failed"] \/ upc' = [upc EXCEPT ![l] = "open"]
  BY <1>1 DEF ReadReceipt, engineVars
<1>3. l \in Update /\ status \in UpdateStatuses
  BY DEF Update, UpdateStatuses
<1>4. of' \in [Update -> Update \cup Launcher] /\ \A m \in Launcher : of'[m] = m
  BY <1>2, <1>3 DEF IInv, PlacesTyped, Update
<1>5. PlacesTyped' /\ lpc'[l] = "updating" /\ \A m \in Launcher \ {l} : lpc'[m] = lpc[m]
  BY <1>1, <1>2, <1>4 DEF IInv, PlacesTyped, Created, Writing
<1>6. lpc[l] \in Granted /\ lpc[l] \in Created /\ epc[l] \in {"idle", "exited"}
  BY <1>1 DEF IInv, AnswersAreRecorded, Granted, Created
<1>7. AnswersAreRecorded'
  BY <1>2, <1>5, <1>6, AnswersStay DEF Granted, Created
<1> QED  BY <1>1, <1>3, <1>5, <1>6, <1>7, ReadPreserves DEF Created

LEMMA OtherUpdatePreserves ==
    ASSUME IInv, NEW u \in Updater, UpdateByOther(u)
    PROVE  IInv'
<1>1. PICK l \in Launcher, status \in Given : ReadReceipt(u, l, status) /\ lpc' = lpc
  BY DEF UpdateByOther
<1>2. /\ UNCHANGED <<decisions, holdQueue, ask, epc, answer, lpc, mode, given>>
      /\ of' = [of EXCEPT ![u] = l]
      /\ upc' = [upc EXCEPT ![u] = "failed"] \/ upc' = [upc EXCEPT ![u] = "open"]
  BY <1>1 DEF ReadReceipt, engineVars
<1>3. u \in Update /\ u \notin Launcher /\ status \in UpdateStatuses
  BY UpdaterAssumption, GivenAssumption DEF Update
<1>4. of' \in [Update -> Update \cup Launcher] /\ \A m \in Launcher : of'[m] = m
  BY <1>2, <1>3 DEF IInv, PlacesTyped, Update
<1>5. PlacesTyped'
  BY <1>2, <1>4 DEF IInv, PlacesTyped, Writing
<1>6. AnswersAreRecorded'
  BY <1>2, AnswersStay
<1>7. \A m \in Launcher : lpc'[m] = lpc[m]
  BY <1>1
<1>8. /\ u \in Update /\ l \in Launcher /\ status \in UpdateStatuses
      /\ (u \in Launcher => u = l) /\ ReadReceipt(u, l, status)
  BY <1>1, <1>3
<1> QED  BY <1>5, <1>6, <1>7, <1>8, ReadPreserves

-----------------------------------------------------------------------------
LEMMA NextPreserves == IInv /\ [Next]_vars => IInv'
<1> SUFFICES ASSUME IInv, [Next]_vars
             PROVE  IInv'
  OBVIOUS
<1>1. CASE UNCHANGED vars
  <2>1. /\ UNCHANGED fileVars /\ UNCHANGED <<lpc, mode, given>>
        /\ UNCHANGED <<decisions, holdQueue, ask, epc, answer>>
    BY <1>1 DEF vars, engineVars, launchVars, updateVars, fileVars
  <2>2. PlacesTyped'
    BY <2>1 DEF IInv, PlacesTyped, fileVars
  <2>3. EngineTyped'
    BY <2>1, EngineTypedStays
  <2>4. AnswersAreRecorded'
    BY <2>1, AnswersStay
  <2>5. /\ \A l \in Launcher : lpc'[l] = lpc[l]
        /\ \A l \in Launcher : answer'[l] = answer[l]
    BY <2>1
  <2>6. UNCHANGED fileVars
    BY <2>1
  <2>7. FilesTyped' /\ ReceiptsAreMade' /\ WrittenInTurn' /\ RevocationsAreRead'
    BY <2>5, <2>6, FilesStay
  <2> QED  BY <2>2, <2>3, <2>4, <2>7 DEF IInv
<1>2. CASE EngineActor
  BY <1>2, EnginePreserves
<1>3. ASSUME NEW l \in Launcher, LauncherActor(l)
      PROVE  IInv'
  <2>1. CASE \E m \in Modes : Launch(l, m)
    BY <2>1, LaunchPreserves
  <2>2. CASE ReadAnswer(l) \/ CheckTools(l) \/ SessionEnds(l) \/ Finish(l)
    BY <2>2, MovePreserves
  <2>3. CASE OpenReceipt(l) \/ WriteReceipt(l) \/ LogReceipt(l)
    BY <2>3, OpenPreserves, WritePreserves, LogPreserves
  <2>4. CASE UpdateByLauncher(l) \/ UpdateStep(l)
    BY <2>4, LauncherUpdatePreserves, UpdatePreserves DEF Update
  <2>5. CASE CreateFails(l) \/ KillLauncher(l)
    BY <2>5, CreateFailsPreserves, KillPreserves
  <2> QED  BY <1>3, <2>1, <2>2, <2>3, <2>4, <2>5 DEF LauncherActor, LauncherStep
<1>4. ASSUME NEW u \in Updater, UpdaterActor(u)
      PROVE  IInv'
  BY <1>4, OtherUpdatePreserves, UpdatePreserves DEF UpdaterActor, Update
<1>5. CASE \E u \in Update : UpdateFails(u)
  BY <1>5, UpdateFailsPreserves
<1> QED  BY <1>1, <1>2, <1>3, <1>4, <1>5 DEF Next, Actor

LEMMA InvariantHolds == Spec => []IInv
<1> QED  BY InitInv, NextPreserves, PTL DEF Spec

-----------------------------------------------------------------------------
(* The theorems.                                                           *)

\* A session runs only when its receipt is filed and logged, and on its
\* caller's decision or on one that the engine recorded for it, neither a hold
\* nor a denial; a held one has its decision in the queue: however the engine,
\* the launchers and the updaters interleave, fail or are killed
\* (scripts/bearbrowser-playwright.sh).
THEOREM OnlyCoveredSessionsRun == Spec => []LiveSessionsAreCovered
<1>1. IInv => LiveSessionsAreCovered
  <2> SUFFICES ASSUME IInv, NEW l \in Launcher
               PROVE  LiveSessionsAreCovered!(l)
    BY DEF LiveSessionsAreCovered
  <2>1. ASSUME lpc[l] = "run"
        PROVE  /\ file[l].status # "missing"
               /\ \E i \in Versions(l) : log[i].receipt = NewReceipt(l)
    BY <2>1 DEF IInv, ReceiptsAreMade, ReceiptMade, Created
  <2>2. ASSUME lpc[l] = "run", ~given[l]
        PROVE  /\ RecordedFor(l, answer[l].of)
               /\ decisions[answer[l].of].decision \notin {"hold", "deny"}
    BY <2>2 DEF IInv, AnswersAreRecorded, Granted, Created
  <2>3. ASSUME lpc[l] = "held"
        PROVE  /\ RecordedFor(l, answer[l].of)
               /\ \E i \in DOMAIN holdQueue : holdQueue[i] = answer[l].of
    BY <2>3 DEF IInv, AnswersAreRecorded
  <2> QED  BY <2>1, <2>2, <2>3 DEF RecordedFor
<1> QED  BY <1>1, InvariantHolds, PTL

\* A receipt that no two programs wrote at once and none failed to write reads
\* in its file as its last version in receipts.jsonl, which the sidecar shows,
\* and verify-automation-receipt accepts it unless the session failed.
THEOREM LogAndFileAgree == Spec => []LogTellsTheFile
<1>1. IInv => LogTellsTheFile
  <2> SUFFICES ASSUME IInv, NEW l \in Launcher, l \notin disturbed,
                      lpc[l] \notin {"idle", "creating", "logging"},
                      Updating(l) = {}, file[l] # NoFile
               PROVE  Latest(l) = {file[l]} /\ (Verify(file[l]) <=> file[l].status # "failed")
    BY DEF LogTellsTheFile
  <2>1. ReceiptMade(l) /\ InTurn(l) /\ lpc[l] \in Places
    BY DEF IInv, ReceiptsAreMade, WrittenInTurn, PlacesTyped, Places
  <2>2. lpc[l] \in Created
    BY <2>1 DEF ReceiptMade, InTurn, Places
  <2>3. Latest(l) = {file[l]} /\ Sound(file[l])
    BY <2>1, <2>2 DEF InTurn
  <2>4. Verify(file[l]) <=> file[l].status # "failed"
    BY <2>3 DEF Sound, Verify, VerifiedStatuses, UpdateStatuses
  <2> QED  BY <2>3, <2>4
<1> QED  BY <1>1, InvariantHolds, PTL

\* Who has revoked a session finds the time of it in the log, whatever came
\* before and after, and in the file too unless another wrote it at the same
\* time (scripts/bearbrowser-update-receipt.py).
THEOREM RevocationsStay == Spec => []RevocationIsKept
<1>1. IInv => RevocationIsKept
  <2> SUFFICES ASSUME IInv, NEW u \in Updater, upc[u] = "done", copy[u].status = "revoked"
               PROVE  /\ \E i \in Versions(of[u]) : log[i].receipt.revokedAt
                      /\ of[u] \in disturbed \/ file[of[u]].revokedAt \/ Updating(of[u]) # {}
    BY DEF RevocationIsKept
  <2>1. UpdateMade(u) /\ RevocationRead(u)
    BY DEF IInv, ReceiptsAreMade, RevocationsAreRead, Update
  <2>2. copy[u].revokedAt
    BY <2>1 DEF UpdateMade, Sound
  <2>3. \E i \in Versions(of[u]) : log[i].receipt.revokedAt
    BY <2>1, <2>2 DEF UpdateMade
  <2>4. of[u] \in disturbed \/ file[of[u]].revokedAt \/ Updating(of[u]) # {}
    BY <2>1, <2>2 DEF RevocationRead
  <2> QED  BY <2>3, <2>4
<1> QED  BY <1>1, InvariantHolds, PTL
=============================================================================
