----------------------------- MODULE EventStream -----------------------------
(***************************************************************************)
(* The events of one tenant on their way to the browser: SSEEventService   *)
(* adds them to the Redis stream events:{tenant_id}, and the generator     *)
(* _sse_stream of each connection reads them from there.                   *)
(*                                                                         *)
(* An event is the number of its entry: 1 is the first one emitted.  XADD  *)
(* trims the oldest entries but keeps MaxLen of them or more.  A browser   *)
(* opens its connection again when it breaks and sends the id of the last  *)
(* event it has dispatched; one that has none reads from "$", the end of   *)
(* the stream at the moment Redis gets the XREAD.                          *)
(*                                                                         *)
(* Definitions no action uses are faulty variants of the one they precede. *)
(***************************************************************************)
EXTENDS Naturals, Sequences

CONSTANTS
    Readers,      \* browsers
    Batch,        \* entries of one XREAD: 10
    MaxLen,       \* entries a trimmed stream keeps: 10 000
    MaxEvents,    \* bound: events emitted
    MaxBreaks     \* bound: broken connections and failing XREADs

ASSUME EventStreamAssumption ==
    /\ {Batch, MaxLen} \subseteq Nat \ {0}
    /\ {MaxEvents, MaxBreaks} \subseteq Nat

Event   == 1..MaxEvents
EventOr0 == 0..MaxEvents

VARIABLES
    tip,      \* the newest entry, 0: none yet
    first,    \* the oldest entry that is not trimmed
    conn,     \* the generator of each reader
    wire,     \* what it has yielded and the browser has not dispatched
    seen,     \* the last event the browser has dispatched, 0: none
    breaks,
    \* history
    got,      \* the events the browser has dispatched
    heard     \* those emitted while an XREAD from "$" was waiting for them

streamVars == <<tip, first, conn, wire, seen, breaks, got, heard>>

\* live: last_id is "$".  Redis waits for what follows from; lo..hi is the rest
\* of the entries of the last answer.
Connection ==
    [pc : {"off", "call", "wait", "send"}, live : BOOLEAN, last : EventOr0,
     from : EventOr0, lo : EventOr0, hi : EventOr0]

\* Nothing is under way, dispatched or asked for that was never emitted
\* (_sse_stream).
StreamTypeOK ==
    /\ tip \in EventOr0
    /\ first \in 1..(MaxEvents + 1)
    /\ conn \in [Readers -> Connection]
    /\ wire \in [Readers -> Seq(Event)]
    /\ seen \in [Readers -> EventOr0]
    /\ breaks \in 0..MaxBreaks
    /\ got \in [Readers -> Seq(Event)]
    /\ heard \in [Readers -> SUBSET Event]

StreamInit ==
    /\ tip = 0 /\ first = 1
    /\ conn = [c \in Readers |-> [pc |-> "off", live |-> FALSE, last |-> 0,
                                  from |-> 0, lo |-> 0, hi |-> 0]]
    /\ wire = [c \in Readers |-> <<>>]
    /\ seen = [c \in Readers |-> 0]
    /\ breaks = 0
    /\ got = [c \in Readers |-> <<>>]
    /\ heard = [c \in Readers |-> {}]

Waiting(c) == conn[c].pc = "wait" /\ conn[c].live

\* XADD with an approximate MAXLEN removes whole nodes of old entries, or none.
\* An emission that fails leaves nothing; its callers log it.
Emit ==
    /\ tip < MaxEvents
    /\ tip' = tip + 1
    /\ first' \in {f \in first..(tip + 1) : f = first \/ f + MaxLen <= tip + 2}
    /\ heard' = [c \in Readers |-> heard[c] \cup
                                        (IF Waiting(c) THEN {tip + 1} ELSE {})]
    /\ UNCHANGED <<conn, wire, seen, breaks, got>>

ConnectFromStart(c) ==
    /\ conn[c].pc = "off"
    /\ conn' = [conn EXCEPT ![c].pc = "call", ![c].last = 0, ![c].live = FALSE]
    /\ UNCHANGED <<tip, first, wire, seen, breaks, got, heard>>

ConnectLive(c) ==
    /\ conn[c].pc = "off"
    /\ conn' = [conn EXCEPT ![c].pc = "call", ![c].last = 0, ![c].live = TRUE]
    /\ UNCHANGED <<tip, first, wire, seen, breaks, got, heard>>

\* event_stream: Last-Event-ID, or "$" without it.
Connect(c) ==
    /\ conn[c].pc = "off"
    /\ conn' = [conn EXCEPT ![c].pc = "call", ![c].last = seen[c],
                            ![c].live = (seen[c] = 0)]
    /\ UNCHANGED <<tip, first, wire, seen, breaks, got, heard>>

Later(a, b) == IF a < b THEN b ELSE a
Sooner(a, b) == IF a < b THEN a ELSE b

\* What XREAD finds after an entry: at most Batch of those that are left.
Answer(x, after) ==
    LET lo == Later(after + 1, first)
    IN  [x EXCEPT !.pc = "send", !.lo = lo, !.hi = Sooner(lo + Batch - 1, tip)]

CallFromEnd(c) ==
    /\ conn[c].pc = "call"
    /\ conn' = [conn EXCEPT ![c].pc = "wait", ![c].from = tip]
    /\ UNCHANGED <<tip, first, wire, seen, breaks, got, heard>>

\* XREAD answers at once when there is something, and else waits.
Call(c) ==
    /\ conn[c].pc = "call"
    /\ LET after == IF conn[c].live THEN tip ELSE conn[c].last
       IN  conn' = [conn EXCEPT ![c] =
              IF after < tip THEN Answer(@, after)
              ELSE [@ EXCEPT !.pc = "wait", !.from = after]]
    /\ UNCHANGED <<tip, first, wire, seen, breaks, got, heard>>

WakeWithNewest(c) ==
    /\ conn[c].pc = "wait" /\ conn[c].from < tip
    /\ conn' = [conn EXCEPT ![c] = Answer(@, tip - 1)]
    /\ UNCHANGED <<tip, first, wire, seen, breaks, got, heard>>

Wake(c) ==
    /\ conn[c].pc = "wait" /\ conn[c].from < tip
    /\ conn' = [conn EXCEPT ![c] = Answer(@, conn[c].from)]
    /\ UNCHANGED <<tip, first, wire, seen, breaks, got, heard>>

\* After five seconds without an entry the generator yields a comment and reads
\* again: from the new end of the stream if it is live.
TimeOut(c) ==
    /\ conn[c].pc = "wait" /\ conn[c].from = tip
    /\ conn' = [conn EXCEPT ![c].pc = "call"]
    /\ UNCHANGED <<tip, first, wire, seen, breaks, got, heard>>

Break == breaks < MaxBreaks /\ breaks' = breaks + 1

\* XREAD raises, before or after Redis has answered; half a second later it is
\* called again.
Hiccup(c) ==
    /\ conn[c].pc \in {"call", "wait"}
    /\ Break
    /\ conn' = [conn EXCEPT ![c].pc = "call"]
    /\ heard' = [heard EXCEPT ![c] = IF conn[c].live THEN {} ELSE @]
    /\ UNCHANGED <<tip, first, wire, seen, got>>

\* last_id is set before the lines of the entry are yielded.
Send(c) ==
    /\ conn[c].pc = "send"
    /\ wire' = [wire EXCEPT ![c] = Append(@, conn[c].lo)]
    /\ conn' = [conn EXCEPT ![c].live = FALSE, ![c].last = conn[c].lo,
                    ![c].lo = IF @ < conn[c].hi THEN @ + 1 ELSE @,
                    ![c].pc = IF conn[c].lo < conn[c].hi THEN "send" ELSE "call"]
    /\ UNCHANGED <<tip, first, seen, breaks, got, heard>>

\* The browser dispatches an event when it has read its empty line.
Receive(c) ==
    /\ wire[c] # <<>>
    /\ wire' = [wire EXCEPT ![c] = Tail(@)]
    /\ seen' = [seen EXCEPT ![c] = Head(wire[c])]
    /\ got' = [got EXCEPT ![c] = Append(@, Head(wire[c]))]
    /\ UNCHANGED <<tip, first, conn, breaks, heard>>

\* The connection breaks, or the API process does: what is under way is lost.
Disconnect(c) ==
    /\ conn[c].pc # "off"
    /\ Break
    /\ conn' = [conn EXCEPT ![c].pc = "off"]
    /\ wire' = [wire EXCEPT ![c] = <<>>]
    /\ heard' = [heard EXCEPT ![c] = IF got[c] = <<>> THEN {} ELSE @]
    /\ UNCHANGED <<tip, first, seen, got>>

ReaderStep(c) ==
    \/ Connect(c) \/ Call(c) \/ Wake(c) \/ TimeOut(c) \/ Hiccup(c)
    \/ Send(c) \/ Receive(c) \/ Disconnect(c)

StreamNext == Emit \/ \E c \in Readers : ReaderStep(c)

\* The server goes on with every connection and the browser opens it again.
StreamFairness ==
    \A c \in Readers :
        /\ WF_streamVars(Connect(c)) /\ WF_streamVars(Call(c))
        /\ WF_streamVars(Wake(c)) /\ WF_streamVars(Send(c))
        /\ WF_streamVars(Receive(c))

StreamSpec == StreamInit /\ [][StreamNext]_streamVars /\ StreamFairness

-----------------------------------------------------------------------------
(***************************************************************************)
(* Properties                                                              *)
(***************************************************************************)

\* However often _sse_stream is cut off and resumed with Last-Event-ID, the
\* browser dispatches events in the order of their entries, none of them twice,
\* and misses between two of them only those the stream has trimmed.
ResumedWithoutGap ==
    \A c \in Readers : \A i \in 1..(Len(got[c]) - 1) :
        /\ got[c][i] < got[c][i + 1]
        /\ \A e \in (got[c][i] + 1)..(got[c][i + 1] - 1) : e < first

\* A reader without an id may miss what is emitted between two of its XREADs,
\* but nothing that was emitted while Redis held one of them and answered it.
BlockedReaderHears ==
    \A c \in Readers : got[c] # <<>> =>
        \A e \in heard[c] : e < first \/ got[c][1] <= e

\* Whoever has an id catches up with the stream, connections breaking or not.
ReaderCatchesUp ==
    \A c \in Readers : \A n \in Event :
        seen[c] > 0 /\ tip >= n ~> seen[c] >= n

=============================================================================
