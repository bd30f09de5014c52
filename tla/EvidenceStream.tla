--------------------------- MODULE EvidenceStream ---------------------------
(***************************************************************************)
(* reasoning-events.ndjson: bridges append an event per line, and          *)
(* scripts/bearbrowser-receipts.py shows the lines, all of them            *)
(* (/receipts) or from now on (/receipts/stream).                          *)
(*                                                                         *)
(* A line is two cells, its head and the tail that ends with the newline.  *)
(* An append is one write(2) to a file opened with O_APPEND: appends do    *)
(* not overlap, but a reader may see the first part of one, and a write    *)
(* that fails may leave that part in the file.                             *)
(***************************************************************************)
EXTENDS Naturals, FiniteSets, Sequences, SequencesExt

CONSTANTS
    Followers,      \* clients of /receipts/stream
    NoEvent,
    MaxFaults       \* bound: writes that fail

ASSUME MaxFaultsAssumption == MaxFaults \in Nat

VARIABLES
    stream,         \* the file: a sequence of cells
    writing,        \* the event whose line is half written, or NoEvent
    faults,
    follower,       \* "idle", "following" or "gone"
    from, pos,      \* where a follower began and how far it has read
    sent,           \* the receipts it was sent
    cut             \* history: the events of which it read a part

streamVars == <<stream, writing, faults>>
followerVars == <<follower, from, pos, sent, cut>>
evidenceVars == <<streamVars, followerVars>>

-----------------------------------------------------------------------------
HeadCell(e) == [event |-> e, part |-> "head"]
TailCell(e) == [event |-> e, part |-> "tail"]

\* Where a whole line begins.  Anything else does not parse and is skipped.
LinesAt(cells) ==
    {i \in 1 .. Len(cells) - 1 :
        /\ cells[i].part = "head" /\ cells[i + 1].part = "tail"
        /\ i = 1 \/ cells[i - 1].part = "tail"}

\* surface_of, to_receipt.  An event has a surface, a type, a decision and a class.
ToReceipt(e) ==
    [event |-> e,
     surface |-> IF e.surface \in {"browser", "iot", "agent"} THEN e.surface ELSE "other",
     decision |-> e.decision,
     class |-> e.class,
     violation |-> e.type = "violation"]

EventsOf(receipts) == [k \in DOMAIN receipts |-> receipts[k].event]

\* The elements of a sequence at some of its places, in its order.
Nth(S, k) == CHOOSE i \in S : Cardinality({j \in S : j <= i}) = k

Chosen(seq, S) == [k \in 1 .. Cardinality(S) |-> seq[Nth(S, k)]]

\* read_events
ReadEvents(cells) ==
    LET lines == Chosen(cells, LinesAt(cells))
    IN  [k \in DOMAIN lines |-> ToReceipt(lines[k].event)]

EvidenceInit ==
    /\ stream = <<>>
    /\ writing = NoEvent
    /\ faults = 0
    /\ follower = [f \in Followers |-> "idle"]
    /\ from = [f \in Followers |-> 0]
    /\ pos = [f \in Followers |-> 0]
    /\ sent = [f \in Followers |-> <<>>]
    /\ cut = [f \in Followers |-> {}]

-----------------------------------------------------------------------------
(* What is served of the whole file.                                       *)

\* The filters of /receipts; "any" and FALSE are those that are not given.
\* ("since" is left out: events have no time here.)
Everything == [surface |-> "any", decision |-> "any", violations |-> FALSE, limit |-> 200]

Matches(receipt, query) ==
    /\ query.surface \in {"any", receipt.surface}
    /\ query.decision \in {"any", receipt.decision}
    /\ query.violations => receipt.violation

Matching(receipts, query) ==
    Chosen(receipts, {k \in DOMAIN receipts : Matches(receipts[k], query)})

\* Mutant: oldest first.
ReceiptsInOrder(query) ==
    LET matching == Matching(ReadEvents(stream), query)
    IN  SubSeq(matching, 1, Min({query.limit, Len(matching)}))

\* /receipts: newest first, and no more than the limit.
Receipts(query) ==
    LET matching == Reverse(Matching(ReadEvents(stream), query))
    IN  SubSeq(matching, 1, Min({query.limit, Len(matching)}))

\* /receipts/summary
SummaryOf(receipts) ==
    LET Count(P(_)) == Cardinality({r \in receipts : P(r)})
    IN  [total |-> Cardinality(receipts),
         bySurface |-> [s \in {r.surface : r \in receipts} |-> Count(LAMBDA r : r.surface = s)],
         byDecision |-> [d \in {"permit", "deny"} |-> Count(LAMBDA r : r.decision = d)],
         byClass |-> [c \in {"allowed", "gated", "prohibited"} |-> Count(LAMBDA r : r.class = c)],
         violations |-> Count(LAMBDA r : r.violation)]

Summary == SummaryOf(ToSet(ReadEvents(stream)))

-----------------------------------------------------------------------------
(* An append, by whoever attests e.                                        *)

WriteLine(e) ==
    /\ writing = NoEvent
    /\ stream' = stream \o <<HeadCell(e), TailCell(e)>>
    /\ UNCHANGED <<writing, faults>>

BeginLine(e) ==
    /\ writing = NoEvent
    /\ stream' = stream \o <<HeadCell(e)>>
    /\ writing' = e
    /\ UNCHANGED faults

EndLine(e) ==
    /\ writing = e
    /\ stream' = stream \o <<TailCell(e)>>
    /\ writing' = NoEvent
    /\ UNCHANGED faults

\* The file cannot be opened, or the disk is full.
FailLine(e) ==
    /\ writing = NoEvent
    /\ faults < MaxFaults
    /\ faults' = faults + 1
    /\ stream' \in {stream, stream \o <<HeadCell(e)>>}
    /\ UNCHANGED writing

-----------------------------------------------------------------------------
(* A follower.                                                             *)

Follow(f) ==
    /\ follower[f] = "idle"
    /\ follower' = [follower EXCEPT ![f] = "following"]
    /\ from' = [from EXCEPT ![f] = Len(stream)]
    /\ pos' = [pos EXCEPT ![f] = Len(stream)]
    /\ UNCHANGED <<sent, cut>>

\* Mutant: the position is not kept.
PollAgain(f) ==
    LET new == SubSeq(stream, pos[f] + 1, Len(stream))
    IN  /\ follower[f] = "following"
        /\ new # <<>>
        /\ sent' = [sent EXCEPT ![f] = @ \o ReadEvents(new)]
        /\ UNCHANGED <<follower, from, pos, cut>>

\* Mutant: only the first new line is sent.
PollOne(f) ==
    LET new == SubSeq(stream, pos[f] + 1, Len(stream))
    IN  /\ follower[f] = "following"
        /\ new # <<>>
        /\ sent' = [sent EXCEPT ![f] = @ \o SelectSeq(ReadEvents(new),
                     LAMBDA e : e = ReadEvents(new)[1])]
        /\ pos' = [pos EXCEPT ![f] = Len(stream)]
        /\ UNCHANGED <<follower, from, cut>>

\* The file has grown: everything up to its end is read, what parses is sent.
Poll(f) ==
    LET new == SubSeq(stream, pos[f] + 1, Len(stream))
    IN  /\ follower[f] = "following"
        /\ new # <<>>
        /\ sent' = [sent EXCEPT ![f] = @ \o ReadEvents(new)]
        /\ pos' = [pos EXCEPT ![f] = Len(stream)]
        /\ cut' = [cut EXCEPT ![f] = @ \cup
                     {c.event : c \in {d \in {Last(stream)} : d.part = "head"}}]
        /\ UNCHANGED <<follower, from>>

Leave(f) ==
    /\ follower[f] = "following"
    /\ follower' = [follower EXCEPT ![f] = "gone"]
    /\ UNCHANGED <<from, pos, sent, cut>>

-----------------------------------------------------------------------------
(* Properties.                                                             *)

\* A receipt that /receipts shows, of an event attested since a follower
\* began and up to where it has read, was sent to it, unless a poll came
\* while its line was half written.
MissedOnlyWhatWasCut ==
    \A f \in Followers :
        \A i \in LinesAt(stream) :
            from[f] < i /\ i < pos[f] =>
                \/ ToReceipt(stream[i].event) \in ToSet(sent[f])
                \/ stream[i].event \in cut[f]
=============================================================================
