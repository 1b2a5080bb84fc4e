---------------------------- MODULE EventStream ----------------------------
(***************************************************************************)
(* The governance event stream of the management client (admin.py): the    *)
(* EventStream handle, iterated by one thread and cancelled by another,    *)
(* and the relay that reads the outbox through it.                         *)
(*                                                                         *)
(* Outbox rows are numbered from 0.  The runtime's outbox and the relay    *)
(* that calls the SDK are outside the repository: they do what the         *)
(* docstrings of stream_events, report_events_consumed and redrive_events  *)
(* say of them.  __next__ is split where another thread can run: after the *)
(* test of _call, after the test of _cancelled, and while the call blocks. *)
(***************************************************************************)
EXTENDS Integers, Sequences, FiniteSets, Functions

CONSTANTS MaxRows,    \* rows the runtime ever appends
          MaxOpens,   \* streams the relay ever opens
          NoCall      \* the Python None of EventStream._call

CallState == {"open", "done", "cancelled", "broken"}

ASSUME StreamAssumption ==
    /\ MaxRows \in Nat /\ MaxOpens \in Nat
    /\ NoCall \notin [state : CallState, pos : 0 .. MaxRows]

VARIABLES
    outbox,      \* outbox[n + 1]: the event_id row n carries (a wrapper has its own)
    published,   \* rows marked published by an acking drain
    watermark,   \* rows below it are pruned
    mode,        \* the request of the open stream: "tail", "drain" or "ackdrain"
    fromSeq,     \* its from_seq
    call,        \* EventStream._call: NoCall or the state and position of the RPC
    cancelled,   \* EventStream._cancelled
    pc,          \* where the iterating thread is
    cancelPc,    \* where the cancelling thread is
    held,        \* the row handed to the relay and not yet delivered, or -1
    cursor,      \* durable: first row the relay has not delivered downstream
    sink,        \* durable: event ids delivered downstream, in order
    opens,       \* streams opened so far
    cancelFirst  \* history: cancel returned before the first __next__

rows == <<outbox, published, watermark>>
handle == <<mode, fromSeq, call, cancelled, pc, cancelPc, cancelFirst>>
relay == <<held, cursor, sink>>
streamVars == <<outbox, published, watermark, mode, fromSeq, call, cancelled, pc,
                cancelPc, held, cursor, sink, opens, cancelFirst>>

Modes == {"tail", "drain", "ackdrain"}
Head0 == Len(outbox)

StreamTypeOK ==
    /\ outbox \in Seq(Nat) /\ Head0 <= MaxRows
    /\ published \subseteq 0 .. MaxRows - 1
    /\ watermark \in 0 .. Head0
    /\ mode \in Modes /\ fromSeq \in 0 .. MaxRows
    /\ call \in {NoCall} \cup [state : CallState, pos : 0 .. MaxRows]
    /\ cancelled \in BOOLEAN /\ cancelFirst \in BOOLEAN
    /\ pc \in {"closed", "idle", "test", "start", "next", "ended", "raised"}
    /\ cancelPc \in {"none", "flagged", "missed", "took"}
    /\ held \in -1 .. MaxRows - 1 /\ cursor \in 0 .. MaxRows
    /\ sink \in Seq(Nat) /\ opens \in 0 .. MaxOpens
-----------------------------------------------------------------------------
(* The runtime's outbox. *)

\* Row n can be read: it was appended and is not pruned.
Readable(n) == n \in watermark .. Head0 - 1

\* A governance event is appended; its event_id is its row number.
AppendEvent ==
    /\ Head0 < MaxRows
    /\ outbox' = Append(outbox, Head0)
    /\ UNCHANGED <<published, watermark, handle, relay, opens>>

\* Rows a call reads next: a tail walks on from its position, a drain walks
\* the unpublished backlog.
NextRows(c) ==
    {n \in c.pos .. Head0 - 1 : Readable(n) /\ (mode # "tail" => n \notin published)}
-----------------------------------------------------------------------------
(* EventStream: stream_events, __next__, cancel. *)

\* Mutant: the resume offset is one too far.
MutantSkipsRow(m) ==
    /\ pc \in {"closed", "ended", "raised"} /\ opens < MaxOpens
    /\ opens' = opens + 1 /\ mode' = m /\ fromSeq' = cursor + 1
    /\ call' = NoCall /\ cancelled' = FALSE /\ pc' = "idle" /\ cancelPc' = "none"
    /\ cancelFirst' = FALSE
    /\ UNCHANGED <<rows, relay>>

\* stream_events refuses an empty stream_id and ack with follow before it
\* builds a request: the three modes are the requests that are left.  The
\* handle is lazy: nothing is sent.
StreamEvents(m) ==
    /\ pc \in {"closed", "ended", "raised"}
    /\ opens < MaxOpens
    /\ opens' = opens + 1
    /\ mode' = m
    /\ fromSeq' = cursor
    /\ call' = NoCall
    /\ cancelled' = FALSE
    /\ pc' = "idle"
    /\ cancelPc' = "none"
    /\ cancelFirst' = FALSE
    /\ UNCHANGED <<rows, relay>>

\* __next__: `if self._call is None`.  The relay asks for the next event once
\* it has dealt with the one it holds.
NextTestCall ==
    /\ pc = "idle" /\ held = -1
    /\ pc' = IF call = NoCall THEN "test" ELSE "next"
    /\ UNCHANGED <<rows, mode, fromSeq, call, cancelled, cancelPc, cancelFirst, relay, opens>>

\* __next__: `if self._cancelled: raise StopIteration`.
NextTestCancelled ==
    /\ pc = "test"
    /\ pc' = IF cancelled THEN "ended" ELSE "start"
    /\ UNCHANGED <<rows, mode, fromSeq, call, cancelled, cancelPc, cancelFirst, relay, opens>>

\* __next__: `self._call = self._start()` sends the request.  from_seq is
\* advisory in a drain: the backlog starts at the first unpublished row.
NextStart ==
    /\ pc = "start"
    /\ call' = [state |-> "open", pos |-> IF mode = "tail" THEN fromSeq ELSE 0]
    /\ pc' = "next"
    /\ UNCHANGED <<rows, mode, fromSeq, cancelled, cancelPc, cancelFirst, relay, opens>>

\* __next__: `return next(self._call)` with a row; an acking drain marks
\* exactly the rows it yields.
NextYield ==
    /\ pc = "next"
    /\ call.state = "open"
    /\ \E n \in NextRows(call) :
         /\ \A j \in NextRows(call) : n <= j
         /\ held' = n
         /\ call' = [call EXCEPT !.pos = n + 1]
         /\ published' = IF mode = "ackdrain" THEN published \cup {n} ELSE published
    /\ pc' = "idle"
    /\ UNCHANGED <<outbox, watermark, mode, fromSeq, cancelled, cancelPc, cancelFirst,
                   cursor, sink, opens>>

\* Mutant: after cancel any error is taken for the end.
MutantAnyEndIsClean ==
    /\ pc = "next" /\ call.state # "open"
    /\ pc' = IF call.state = "done" \/ cancelled THEN "ended" ELSE "raised"
    /\ UNCHANGED <<rows, mode, fromSeq, call, cancelled, cancelPc, cancelFirst, relay, opens>>

\* __next__: the call is over.  The server's clean end is a StopIteration of
\* its own; an RpcError is the end the caller asked for when both _cancelled
\* is set and its code is CANCELLED, and a typed error otherwise.
NextOver ==
    /\ pc = "next"
    /\ call.state # "open"
    /\ pc' = IF call.state = "done" \/ (cancelled /\ call.state = "cancelled")
             THEN "ended" ELSE "raised"
    /\ UNCHANGED <<rows, mode, fromSeq, call, cancelled, cancelPc, cancelFirst, relay, opens>>

\* cancel, first statement: `self._cancelled = True`.
CancelFlag ==
    /\ cancelPc = "none" /\ pc # "closed"
    /\ cancelPc' = "flagged"
    /\ cancelled' = TRUE
    /\ UNCHANGED <<rows, mode, fromSeq, call, pc, cancelFirst, relay, opens>>

\* Mutant: the flag is set and the call is left to itself.
MutantOnlyFlags ==
    /\ cancelPc = "flagged"
    /\ cancelPc' = IF call = NoCall THEN "missed" ELSE "took"
    /\ cancelFirst' = (call = NoCall /\ pc = "idle")
    /\ UNCHANGED <<rows, mode, fromSeq, call, cancelled, pc, relay, opens>>

\* cancel, the rest: cancels the call if there is one, and returns True if
\* there is none yet.
CancelCall ==
    /\ cancelPc = "flagged"
    /\ cancelPc' = IF call = NoCall THEN "missed" ELSE "took"
    /\ cancelFirst' = (call = NoCall /\ pc = "idle")
    /\ call' = IF call # NoCall /\ call.state = "open"
               THEN [call EXCEPT !.state = "cancelled"] ELSE call
    /\ UNCHANGED <<rows, mode, fromSeq, cancelled, pc, relay, opens>>

\* The runtime ends the call: a drain that has read its backlog, or a tail
\* when the server shuts down.
ServerEnds ==
    /\ call # NoCall /\ call.state = "open"
    /\ mode # "tail" => NextRows(call) = {}
    /\ call' = [call EXCEPT !.state = "done"]
    /\ UNCHANGED <<rows, mode, fromSeq, cancelled, pc, cancelPc, cancelFirst, relay, opens>>

\* The connection fails, or the channel is closed under the call: the latter
\* has the code CANCELLED although nobody called cancel.
CallBreaks(how) ==
    /\ call # NoCall /\ call.state = "open"
    /\ call' = [call EXCEPT !.state = how]
    /\ UNCHANGED <<rows, mode, fromSeq, cancelled, pc, cancelPc, cancelFirst, relay, opens>>
-----------------------------------------------------------------------------
(* The relay, as the docstrings ask it to behave. *)

\* Delivers the row it holds unless its event_id was delivered before.
Deliver ==
    /\ held # -1 /\ mode = "tail"
    /\ sink' = IF outbox[held + 1] \in Range(sink) THEN sink
               ELSE Append(sink, outbox[held + 1])
    /\ UNCHANGED <<rows, handle, held, cursor, opens>>

\* Makes "last seq + 1" its durable resume offset, once the row is delivered.
SaveCursor ==
    /\ held # -1 /\ mode = "tail"
    /\ outbox[held + 1] \in Range(sink)
    /\ cursor' = held + 1
    /\ held' = -1
    /\ UNCHANGED <<rows, handle, sink, opens>>

\* A drain serves an operator who looks at the backlog; it feeds no cursor.
Inspect ==
    /\ held # -1 /\ mode # "tail"
    /\ held' = -1
    /\ UNCHANGED <<rows, handle, cursor, sink, opens>>

\* A crash loses the handle and the row in hand, not the sink or the cursor.
Crash ==
    /\ pc # "closed"
    /\ pc' = "closed" /\ call' = NoCall /\ cancelled' = FALSE
    /\ cancelPc' = "none" /\ cancelFirst' = FALSE
    /\ held' = -1
    /\ UNCHANGED <<rows, mode, fromSeq, cursor, sink, opens>>

\* Mutant: the row in hand is reported as consumed.
MutantReportsHeld == IF held # -1 THEN held + 1 ELSE cursor

\* The offset the relay reports: its durable cursor, never the row in hand.
ConsumedCursor == cursor

\* report_events_consumed: a monotone watermark, clamped to the outbox head.
ReportEventsConsumed ==
    /\ LET w == IF ConsumedCursor > Head0 THEN Head0 ELSE ConsumedCursor IN
         watermark' = IF w > watermark THEN w ELSE watermark
    /\ UNCHANGED <<outbox, published, handle, relay, opens>>

\* redrive_events: one wrapper row for each row of the range that is stored
\* and not itself a wrapper; a pruned or unknown row is only reported.
Redrive(from, to) ==
    /\ from <= to
    /\ LET again == {n \in from .. to : Readable(n) /\ outbox[n + 1] = n} IN
         /\ Cardinality(again) \in 1 .. MaxRows - Head0
         /\ outbox' = outbox \o [i \in 1 .. Cardinality(again) |-> MaxRows + Head0 + i - 1]
    /\ UNCHANGED <<published, watermark, handle, relay, opens>>
-----------------------------------------------------------------------------
StreamInit ==
    /\ outbox = <<>> /\ published = {} /\ watermark = 0
    /\ mode = "tail" /\ fromSeq = 0 /\ call = NoCall /\ cancelled = FALSE
    /\ pc = "closed" /\ cancelPc = "none" /\ cancelFirst = FALSE
    /\ held = -1 /\ cursor = 0 /\ sink = <<>> /\ opens = 0

Iterate == NextTestCall \/ NextTestCancelled \/ NextStart \/ NextYield \/ NextOver

StreamNext ==
    \/ AppendEvent
    \/ \E m \in Modes : StreamEvents(m)
    \/ NextTestCall \/ NextTestCancelled \/ NextStart \/ NextYield \/ NextOver
    \/ CancelFlag \/ CancelCall
    \/ ServerEnds
    \/ \E how \in {"broken", "cancelled"} : CallBreaks(how)
    \/ Deliver \/ SaveCursor \/ Inspect \/ Crash
    \/ ReportEventsConsumed
    \/ \E from, to \in 0 .. MaxRows - 1 : Redrive(from, to)

StreamSpec == StreamInit /\ [][StreamNext]_streamVars

\* The iterating thread keeps asking for events, the relay deals with each,
\* and cancel runs to its end.  Nothing is assumed of the server, of the
\* network or of whoever calls cancel.
StreamFairSpec ==
    /\ StreamSpec
    /\ WF_streamVars(Iterate)
    /\ WF_streamVars(Deliver)
    /\ WF_streamVars(SaveCursor \/ Inspect)
    /\ WF_streamVars(CancelCall)
-----------------------------------------------------------------------------
(* Properties. *)

\* What reached downstream is the outbox from its first row on, in order,
\* with no gap and no repetition, whatever crashes, broken streams, pruning
\* and redrives happened: resuming from "last seq + 1" with deduplication
\* by event_id is enough.
RelayInOrder == Len(sink) <= Len(outbox) /\ sink = SubSeq(outbox, 1, Len(sink))

\* The runtime prunes no row the relay has not delivered: the offset given
\* to report_events_consumed is durable and contiguous.
PrunedWereDelivered == watermark <= Len(sink)

\* A stream cancelled before its first __next__ sends no request, so an
\* acking drain acknowledges nothing.
CancelFirstSendsNothing == cancelFirst => call = NoCall

\* Iteration ends without an error only when the server ended the stream or
\* the caller cancelled it; a failed call is never taken for a clean end.
CleanEndIsEarned ==
    pc = "ended" =>
        \/ cancelled /\ (call # NoCall => call.state # "broken")
        \/ call # NoCall /\ call.state = "done"

\* A cancel that reached a running call ends the iteration of a tail that
\* would otherwise block for ever.
ReachedCancelEnds == cancelPc = "took" ~> pc \in {"closed", "ended", "raised"}

\* "After cancel() the iteration ends cleanly": whenever cancel has
\* returned, the iteration ends.
CancelEndsIteration ==
    cancelPc \in {"missed", "took"} ~> pc \in {"closed", "ended", "raised"}
=============================================================================
