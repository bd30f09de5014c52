--------------------------- MODULE BidiTransport ----------------------------
(***************************************************************************)
(* lib/bidi_transport.py: one WebDriver-BiDi client, its socket, and the   *)
(* browser at the other end.                                               *)
(*                                                                         *)
(* A command is sent with the next id, and answers are read until one has  *)
(* it: events and late answers are skipped.  Every read may time out.  The *)
(* built-in WebSocket loses the header of a frame whose payload does not   *)
(* come in time; what it reads then is no frame (aligned is FALSE) until a *)
(* read happens to end where a frame does.  The websocket-client package,  *)
(* when there is one, goes on in the middle of a frame.                    *)
(***************************************************************************)
EXTENDS Naturals, Sequences, FiniteSets

CONSTANTS
    NoMethod,
    MaxPushes       \* bound: pushes that are in the client's buffer at once

ASSUME MaxPushesAssumption == MaxPushes \in Nat

VARIABLES
    library,        \* HAVE_WS_CLIENT
    socket,         \* "none", "open", "closed", "lost"
    lastId,         \* BidiClient._id
    outbox,         \* commands the browser has not read
    inbox,          \* frames the client has not read
    aligned,
    executed        \* what the browser did, in its order

wireVars == <<library, socket, lastId, outbox, inbox, aligned, executed>>

-----------------------------------------------------------------------------
NeverACommand == {"enter-credentials", "enter-payment-details", "enter-government-id",
    "modify-access-controls", "bypass-captcha", "execute-trade-or-transfer",
    "submit-form", "file-download", "oauth-grant", "payment-autofill",
    "cross-origin-post", "clipboard-write", "geolocation", "camera-mic"}

\* build_bidi_command
Method(action) ==
    CASE action \in NeverACommand -> NoMethod
      [] action = "navigate"      -> "browsingContext.navigate"
      [] action \in {"read-dom", "extract-text", "query-selector", "scroll", "wait"}
                                  -> "script.evaluate"
      [] action \in {"click", "fill-form-field"}
                                  -> "input.performActions"
      [] action = "screenshot"    -> "browsingContext.captureScreenshot"
      [] OTHER                    -> NoMethod

\* Actions whose parameters must be numbers: int() may raise.
NumericActions == {"scroll", "wait", "click"}

SessionMethods == {"session.new", "session.end"}

\* parse_loopback, is_loopback: of a URL only the host matters, "remote",
\* "loopback" or "none" when it has none that can be parsed.
IsLoopback(url) == url = "loopback"

WireInit ==
    /\ library \in BOOLEAN
    /\ socket = "none"
    /\ lastId = 0
    /\ outbox = <<>>
    /\ inbox = <<>>
    /\ aligned = TRUE
    /\ executed = <<>>

-----------------------------------------------------------------------------
(* The client.                                                             *)

\* The WebSocket is open: the browser has answered the upgrade with 101.
OpenSocket(url) ==
    /\ IsLoopback(url)
    /\ socket = "none"
    /\ socket' = "open"
    /\ UNCHANGED <<library, lastId, outbox, inbox, aligned, executed>>

\* send_command up to the read.
SendFrame(method, of) ==
    /\ socket = "open"
    /\ lastId' = lastId + 1
    /\ outbox' = Append(outbox, [id |-> lastId + 1, method |-> method, of |-> of])
    /\ UNCHANGED <<library, socket, inbox, aligned, executed>>

\* sendall raises: the browser has closed the connection.
SendFails ==
    /\ socket = "lost"
    /\ lastId' = lastId + 1
    /\ UNCHANGED <<library, socket, outbox, inbox, aligned, executed>>

Consume == /\ inbox' = Tail(inbox)
           /\ UNCHANGED <<library, socket, lastId, outbox, aligned, executed>>

Skip ==
    /\ aligned /\ inbox # <<>>
    /\ Head(inbox).id # lastId
    /\ Consume

\* Mutant: the first answer is taken for this command's.
AnyAnswer(ok) ==
    /\ aligned /\ inbox # <<>>
    /\ Head(inbox).id # 0
    /\ Head(inbox).ok = ok
    /\ Consume

Answer(ok) ==
    /\ aligned /\ inbox # <<>>
    /\ Head(inbox).id = lastId
    /\ Head(inbox).ok = ok
    /\ Consume

\* Mutant: a read has no time-out.
Ended ==
    /\ aligned
    /\ inbox = <<>> /\ socket # "open"
    /\ UNCHANGED wireVars

\* Nothing comes, or the connection is closed.
TimeOut ==
    /\ aligned
    /\ inbox = <<>>
    /\ UNCHANGED wireVars

\* A frame comes in part.
StallInFrame ==
    /\ aligned /\ inbox # <<>>
    /\ aligned' = library
    /\ UNCHANGED <<library, socket, lastId, outbox, inbox, executed>>

\* What is read is no JSON; it may have ended where a frame ends.
ReadGarbage ==
    /\ ~aligned
    /\ \/ UNCHANGED wireVars
       \/ /\ \E k \in 1 .. Len(inbox) : inbox' = SubSeq(inbox, k + 1, Len(inbox))
          /\ aligned' = TRUE
          /\ UNCHANGED <<library, socket, lastId, outbox, executed>>

\* send_command raises: an error answer, or the transport.
Raise == Answer(FALSE) \/ TimeOut \/ StallInFrame \/ ReadGarbage

\* BidiClient.close after session.end, or a client whose handshake failed is
\* dropped.  What the browser has not read yet it still may.
Hangup ==
    /\ socket' = IF socket = "open" THEN "closed" ELSE socket
    /\ inbox' = <<>>
    /\ aligned' = TRUE
    /\ UNCHANGED <<library, lastId, outbox, executed>>

-----------------------------------------------------------------------------
(* The browser.                                                            *)

\* It reads a command, does it or fails, and answers.
Execute ==
    /\ outbox # <<>>
    /\ outbox' = Tail(outbox)
    /\ \E ok \in BOOLEAN :
          /\ executed' = Append(executed, [command |-> Head(outbox), ok |-> ok])
          /\ inbox' = IF socket = "open"
                      THEN Append(inbox, [id |-> Head(outbox).id, ok |-> ok]) ELSE inbox
    /\ UNCHANGED <<library, socket, lastId, aligned>>

\* An event, a ping, or an answer to nobody: there is no end to them.
Pushed == {i \in DOMAIN inbox : inbox[i].id = 0}

Push ==
    /\ socket = "open" /\ Cardinality(Pushed) < MaxPushes
    /\ inbox' = Append(inbox, [id |-> 0, ok |-> TRUE])
    /\ UNCHANGED <<library, socket, lastId, outbox, aligned, executed>>

\* The browser ends; what it has answered comes in or does not.
Lose ==
    /\ socket = "open"
    /\ socket' = "lost"
    /\ outbox' = <<>>
    /\ inbox' \in {inbox, <<>>}
    /\ aligned' = (aligned \/ inbox' = <<>>)
    /\ UNCHANGED <<library, lastId, executed>>
=============================================================================
