------------------------------ MODULE DurableLog ------------------------------
(***************************************************************************)
(* What a partition's log promises its owner, whatever files it keeps: a   *)
(* sequence of records of which a prefix is on stable storage.  Requests   *)
(* are served one at a time; a crash may happen while one is served.       *)
(***************************************************************************)
EXTENDS Naturals, Sequences

CONSTANT Values

VARIABLES content,   \* the records, oldest first
          synced,    \* how many of them are on stable storage
          request,   \* the request being served
          damaged    \* the promise is off: the medium failed under a write

vars == <<content, synced, request, damaged>>

NoRequest == [op |-> "none"]

Init ==
    /\ content = <<>>
    /\ synced = 0
    /\ request = NoRequest
    /\ ~damaged

Cut(n) == SubSeq(content, 1, n)

\* Records reach stable storage in order and leave it only by being cut off.
Settle ==
    /\ synced' \in 0 .. Len(content')
    /\ synced' >= IF synced <= Len(content') THEN synced ELSE Len(content')

Ask ==
    /\ request = NoRequest
    /\ request' # NoRequest
    /\ UNCHANGED <<content, synced>>

Appended ==
    /\ request.op = "append"
    /\ content' = Append(content, request.val)

Truncated ==
    /\ request.op = "truncate"
    /\ content' = IF request.to < Len(content) THEN Cut(request.to) ELSE content

Flushed ==
    /\ request.op = "flush"
    /\ content' = content
    /\ synced' = Len(content)

Finish ==
    /\ request # NoRequest
    /\ Appended \/ Truncated \/ Flushed
    /\ Settle
    /\ request' = NoRequest

\* A crash loses nothing that was on stable storage, except what the truncation
\* it interrupts was asked to remove.  The record of an interrupted append may
\* or may not be there afterwards.
Crash ==
    LET grown == IF request.op = "append" THEN Append(content, request.val) ELSE content
        least == IF request.op = "truncate" /\ request.to < synced
                 THEN request.to ELSE synced
    IN  /\ \E n \in least .. Len(grown) : content' = SubSeq(grown, 1, n)
        /\ Settle
        /\ request' = NoRequest

Next ==
    /\ UNCHANGED damaged
    /\ Ask \/ Finish \/ Crash

Spec == Init /\ [][Next \/ damaged']_vars

====================
