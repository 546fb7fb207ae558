--------------------------- MODULE Connection_proofs ---------------------------
(***************************************************************************)
(* What is proved about Connection for all requests, bounds and answers,   *)
(* and for every codec that gives back what was put into a frame: answers  *)
(* reach the calls they belong to, and a call is closed only for a reason. *)
(***************************************************************************)
EXTENDS Connection, ProofLemmas

------------------------------------------------------------------------------
(* Queues: sequences whose elements have no set of their own *)

IsQueue(s) == Len(s) \in Nat /\ s = [i \in 1 .. Len(s) |-> s[i]]

LEMMA QueueIsSeq ==
  ASSUME NEW s, IsQueue(s)
  PROVE  /\ s \in Seq({s[i] : i \in 1 .. Len(s)})
         /\ DOMAIN s = 1 .. Len(s)
  <1> DEFINE R == {s[i] : i \in 1 .. Len(s)}
  <1>1. s \in [1 .. Len(s) -> R]
    BY DEF IsQueue
  <1>2. s \in Seq(R)
    BY <1>1 DEF IsQueue
  <1>3. QED
    BY <1>2 DEF IsQueue

LEMMA SeqIsQueue ==
  ASSUME NEW S, NEW s \in Seq(S)
  PROVE  IsQueue(s)
  BY DEF IsQueue

LEMMA QueueAppend ==
  ASSUME NEW s, NEW x, IsQueue(s)
  PROVE  /\ IsQueue(Append(s, x))
         /\ Len(Append(s, x)) = Len(s) + 1
         /\ \A i \in 1 .. Len(s) : Append(s, x)[i] = s[i]
         /\ Append(s, x)[Len(s) + 1] = x
  <1> DEFINE R == {s[i] : i \in 1 .. Len(s)} \cup {x}
  <1>1. s \in Seq(R) /\ x \in R
    <2>1. s \in Seq({s[i] : i \in 1 .. Len(s)})
      BY QueueIsSeq
    <2>2. QED
      BY <2>1
  <1> HIDE DEF R
  <1>2. Append(s, x) \in Seq(R)
    BY <1>1
  <1>3. IsQueue(Append(s, x))
    BY <1>2, SeqIsQueue, Zenon
  <1>4. QED
    BY <1>1, <1>3

LEMMA QueueTail ==
  ASSUME NEW s, IsQueue(s), s # <<>>
  PROVE  /\ IsQueue(Tail(s))
         /\ Len(s) >= 1 /\ Len(Tail(s)) = Len(s) - 1
         /\ \A i \in 1 .. Len(s) - 1 : Tail(s)[i] = s[i + 1]
         /\ Head(s) = s[1]
  <1> DEFINE R == {s[i] : i \in 1 .. Len(s)}
  <1>1. s \in Seq(R)
    BY QueueIsSeq
  <1> HIDE DEF R
  <1>2. Tail(s) \in Seq(R)
    BY <1>1
  <1>3. IsQueue(Tail(s))
    BY <1>2, SeqIsQueue, Zenon
  <1>4. QED
    BY <1>1, <1>3

LEMMA QueuePrefix ==
  ASSUME NEW s, NEW n \in 0 .. Len(s), IsQueue(s)
  PROVE  /\ IsQueue(SubSeq(s, 1, n))
         /\ Len(SubSeq(s, 1, n)) = n
         /\ \A i \in 1 .. n : SubSeq(s, 1, n)[i] = s[i]
  <1> DEFINE R == {s[i] : i \in 1 .. Len(s)}
  <1>1. s \in Seq(R) /\ Len(s) \in Nat
    BY QueueIsSeq DEF IsQueue
  <1> HIDE DEF R
  <1>2. SubSeq(s, 1, n) \in Seq(R)
    BY <1>1
  <1>3. IsQueue(SubSeq(s, 1, n))
    BY <1>2, SeqIsQueue, Zenon
  <1>4. QED
    BY <1>1, <1>3

------------------------------------------------------------------------------
(* The inductive invariant *)

\* What a frame within the limit carries is what is read from it: of the requests
\* that were called and of the answers that were given.
Reads(got, msg, corr) == got.ok /\ got.msg = msg /\ got.corr = corr

CodecInverts ==
    /\ \A k \in DOMAIN calls :
          LET frame == PutRequest(calls[k].req, Corr(k))
          IN  Fits(frame) => Reads(GetRequest(frame), calls[k].req, Corr(k))
    /\ \A c \in DOMAIN handled :
          LET frame == PutResponse(handled[c].answer, c)
          IN  handled[c].answer # Pending /\ Fits(frame) =>
                  Reads(GetResponse(frame), handled[c].answer, c)

Specials == {Pending, Closed, Unanswered}
Answered(c) == handled[c].answer # Pending

\* The calls, and the waiters of those that have not returned.
CallInv ==
    /\ IsQueue(calls) /\ Len(calls) <= MaxCalls
    /\ \A k \in 1 .. Len(calls) :
          /\ calls[k] = [req |-> calls[k].req, written |-> calls[k].written,
                         result |-> calls[k].result]
          /\ calls[k].req \in Requests[k]
          /\ calls[k].written \in BOOLEAN
    /\ \A c \in DOMAIN waiters : /\ waiters[c] \in 1 .. Len(calls)
                                 /\ Corr(waiters[c]) = c
                                 /\ calls[waiters[c]].result = Pending

\* A call is sent once.
SentInv ==
    /\ IsQueue(sent)
    /\ \A i \in 1 .. Len(sent) : sent[i] \in 1 .. Len(calls) /\ calls[sent[i]].written
    /\ \A i, j \in 1 .. Len(sent) : sent[i] = sent[j] => i = j

\* Of the frames that were sent the broker has taken the first base; those on their
\* way are the next ones, and all the others unless the network was cut.
FlowInv(base) ==
    /\ IsQueue(up) /\ base + Len(up) <= Len(sent)
    /\ cut \/ base + Len(up) = Len(sent)
    /\ \A i \in 1 .. Len(up) :
          up[i] = PutRequest(calls[sent[base + i]].req, Corr(sent[base + i]))

\* Tasks and answers belong to the requests that were taken, one for each.
From(base, corr, req) == \E i \in 1 .. base : corr = Corr(sent[i]) /\ req = calls[sent[i]].req

TaskInv(base) ==
    /\ \A t \in tasks :
          /\ t = Task(t.corr, t.phase, t.req, t.resp)
          /\ From(base, t.corr, t.req)
          /\ ~Answered(t.corr)
          /\ \/ t.phase \in {"reply", "commit", "wait"} /\ t.resp.type = t.req.type
             \/ t.phase = "read"
          /\ t.phase \in {"read", "wait"} => t.req.type = "Fetch"
    /\ \A t, u \in tasks : t.corr = u.corr => t = u

AnswerInv(base) ==
    /\ handled = [c \in {Corr(k) : k \in 1 .. MaxCalls} |-> [answer |-> handled[c].answer]]
    /\ \A c \in DOMAIN handled : Answered(c) =>
          \E i \in 1 .. base : /\ c = Corr(sent[i])
                               /\ handled[c].answer.type = calls[sent[i]].req.type

\* The frames on their way back are answers, and so is what a call returned.
DownInv ==
    /\ IsQueue(down)
    /\ \A i \in 1 .. Len(down) : \E c \in DOMAIN handled :
          Answered(c) /\ down[i] = PutResponse(handled[c].answer, c)

ResultInv ==
    \A k \in 1 .. Len(calls) :
        \/ calls[k].result \in Specials
        \/ Answered(Corr(k)) /\ calls[k].result = handled[Corr(k)].answer

\* Why a connection closes.
Reason == cut \/ stopping \/ FrameTooLarge

CloseInv ==
    /\ closed \in BOOLEAN
    /\ ~writerUp => cut \/ session = "gone"
    /\ session \in {"loop", "draining", "gone"}
    /\ session = "gone" => tasks = {}
    /\ dropped => \A k \in 1 .. Len(calls) : Returned(k)
    /\ session # "loop" => Reason \/ dropped
    /\ closed => Reason \/ dropped
    /\ \A k \in 1 .. Len(calls) : calls[k].result = Closed => Reason

Inv(base) ==
    /\ base \in 0 .. Len(sent)
    /\ CallInv /\ SentInv /\ DownInv /\ ResultInv /\ CloseInv
    /\ FlowInv(base) /\ TaskInv(base) /\ AnswerInv(base)

IndInv == \E base \in 0 .. Len(sent) : Inv(base)

------------------------------------------------------------------------------
(* Correlation ids and results *)

\* The ids do not wrap while no more than MaxCalls calls are made.
LEMMA CorrIsCall ==
  /\ MaxCalls \in Nat
  /\ \A k \in 0 .. MaxCalls : Corr(k) = k
  <1>1. CorrModulus \in Nat /\ MaxCalls \in Nat /\ MaxCalls < CorrModulus
    BY ConnectionAssumption DEF MaxCalls
  <1>2. ASSUME NEW k \in 0 .. MaxCalls PROVE Corr(k) = k
    BY <1>1 DEF Corr
  <1>3. QED
    BY <1>1, <1>2

\* No request has the type of a special result.
LEMMA RequestTypes ==
  ASSUME NEW k \in 1 .. MaxCalls, NEW req \in Requests[k]
  PROVE  req.type \notin {"Pending", "Closed", "Unanswered"}
  BY ConnectionAssumption DEF MaxCalls

\* Nothing a call, a sent frame or an answer was is forgotten.
CallsKeep ==
    /\ IsQueue(calls)' /\ Len(calls) <= Len(calls')
    /\ \A k \in 1 .. Len(calls) : calls'[k].req = calls[k].req

SentKeeps ==
    /\ IsQueue(sent)' /\ Len(sent) <= Len(sent')
    /\ \A i \in 1 .. Len(sent) : sent'[i] = sent[i]

AnswersKeep ==
    /\ DOMAIN handled' = DOMAIN handled
    /\ \A c \in DOMAIN handled : Answered(c) => handled'[c] = handled[c]

LEMMA SameKeeps ==
  ASSUME CallInv, SentInv, UNCHANGED <<calls, sent>>
  PROVE  CallsKeep /\ SentKeeps
  BY DEF CallInv, SentInv, CallsKeep, SentKeeps, IsQueue

\* What the broker owes and has answered does not depend on what the client does next.
LEMMA BrokerSideStays ==
  ASSUME NEW base \in 0 .. Len(sent), SentInv, TaskInv(base), AnswerInv(base),
         CallsKeep, SentKeeps, UNCHANGED <<tasks, handled>>
  PROVE  TaskInv(base)' /\ AnswerInv(base)'
  <1>1. \A i \in 1 .. base : sent'[i] = sent[i] /\ calls'[sent[i]].req = calls[sent[i]].req
    BY DEF SentInv, IsQueue, CallsKeep, SentKeeps
  <1>2. \A c, r : From(base, c, r) => From(base, c, r)'
    BY <1>1 DEF From
  <1>3. TaskInv(base)'
    <2>1. ASSUME NEW t \in tasks'
          PROVE  /\ t = Task(t.corr, t.phase, t.req, t.resp)
                 /\ From(base, t.corr, t.req)'
                 /\ ~Answered(t.corr)'
                 /\ \/ t.phase \in {"reply", "commit", "wait"} /\ t.resp.type = t.req.type
                    \/ t.phase = "read"
                 /\ t.phase \in {"read", "wait"} => t.req.type = "Fetch"
      BY <1>2 DEF TaskInv, Answered
    <2>2. \A t, u \in tasks' : t.corr = u.corr => t = u
      BY DEF TaskInv
    <2>3. QED
      BY <2>1, <2>2 DEF TaskInv
  <1>4. AnswerInv(base)'
    BY SMTT(30), <1>1 DEF AnswerInv, Answered
  <1>5. QED
    BY <1>3, <1>4

\* Once too large a frame was sent or answered, this stays so.
LEMMA FrameTooLargeStays ==
  ASSUME SentInv, CallInv, FrameTooLarge, CallsKeep, SentKeeps, AnswersKeep
  PROVE  FrameTooLarge'
  <1>1. DOMAIN sent = 1 .. Len(sent)
    BY QueueIsSeq DEF SentInv
  <1>2. CASE \E i \in DOMAIN sent : ~Fits(PutRequest(calls[sent[i]].req, Corr(sent[i])))
    <2>1. PICK i \in 1 .. Len(sent) : ~Fits(PutRequest(calls[sent[i]].req, Corr(sent[i])))
      BY <1>1, <1>2
    <2>2. sent'[i] = sent[i] /\ calls'[sent[i]].req = calls[sent[i]].req
      BY DEF SentInv, CallsKeep, SentKeeps
    <2>3. ~Fits(PutRequest(calls'[sent'[i]].req, Corr(sent'[i])))
      BY <2>1, <2>2
    <2>4. i \in DOMAIN sent'
      <3>1. DOMAIN sent' = 1 .. Len(sent')
        BY QueueIsSeq DEF SentKeeps
      <3>2. QED
        BY <3>1 DEF SentKeeps, IsQueue
    <2>5. QED
      BY <2>3, <2>4 DEF FrameTooLarge
  <1>3. CASE \E c \in DOMAIN handled : Answered(c) /\ ~Fits(PutResponse(handled[c].answer, c))
    <2>1. PICK c \in DOMAIN handled : Answered(c) /\ ~Fits(PutResponse(handled[c].answer, c))
      BY <1>3
    <2>2. QED
      BY <2>1 DEF AnswersKeep, FrameTooLarge, Answered
  <1>4. QED
    BY <1>2, <1>3 DEF FrameTooLarge, Answered

------------------------------------------------------------------------------
(* The client's steps *)

\* A step of the client leaves the answers alone; frames only leave its queue's end.
LEMMA DownStays ==
  ASSUME DownInv, UNCHANGED <<down, handled>>
  PROVE  DownInv'
  BY DEF DownInv, Answered

LEMMA FlowStays ==
  ASSUME NEW base \in 0 .. Len(sent), SentInv, FlowInv(base), CallsKeep,
         UNCHANGED <<sent, up>>, cut => cut'
  PROVE  FlowInv(base)'
  <1>1. \A i \in 1 .. Len(up) : calls'[sent[base + i]].req = calls[sent[base + i]].req
    <2>1. \A i \in 1 .. Len(up) : base + i \in 1 .. Len(sent)
      BY DEF FlowInv, IsQueue, SentInv
    <2>2. QED
      BY <2>1 DEF SentInv, CallsKeep
  <1>2. QED
    BY <1>1 DEF FlowInv

\* A new call: nothing before it changes.
LEMMA NewCall ==
  ASSUME CallInv, Len(calls) < MaxCalls, NEW req \in Requests[Len(calls) + 1],
         NEW w \in BOOLEAN, NEW r,
         calls' = Append(calls, [req |-> req, written |-> w, result |-> r])
  PROVE  /\ IsQueue(calls)' /\ Len(calls') = Len(calls) + 1 /\ Len(calls) \in Nat
         /\ \A k \in 1 .. Len(calls) : calls'[k] = calls[k]
         /\ calls'[Len(calls) + 1] = [req |-> req, written |-> w, result |-> r]
         /\ CallsKeep
         /\ Len(calls') <= MaxCalls
         /\ \A k \in 1 .. Len(calls') :
               /\ calls'[k] = [req |-> calls'[k].req, written |-> calls'[k].written,
                               result |-> calls'[k].result]
               /\ calls'[k].req \in Requests[k]
               /\ calls'[k].written \in BOOLEAN
  <1> DEFINE c == [req |-> req, written |-> w, result |-> r]
  <1>0. Len(calls) \in Nat /\ IsQueue(calls)
    BY DEF CallInv, IsQueue
  <1> HIDE DEF c
  <1>1. /\ IsQueue(calls') /\ Len(calls') = Len(calls) + 1
        /\ \A k \in 1 .. Len(calls) : calls'[k] = calls[k]
        /\ calls'[Len(calls) + 1] = c
    <2>1. calls' = Append(calls, c)
      BY DEF c
    <2>2. QED
      BY <1>0, <2>1, QueueAppend
  <1>2. CallsKeep
    BY <1>0, <1>1 DEF CallsKeep
  <1>3. Len(calls') <= MaxCalls
    BY <1>0, <1>1, CorrIsCall
  <1>4. ASSUME NEW k \in 1 .. Len(calls')
        PROVE  /\ calls'[k] = [req |-> calls'[k].req, written |-> calls'[k].written,
                               result |-> calls'[k].result]
               /\ calls'[k].req \in Requests[k]
               /\ calls'[k].written \in BOOLEAN
    <2>1. CASE k \in 1 .. Len(calls)
      BY <1>1, <2>1 DEF CallInv
    <2>2. CASE k = Len(calls) + 1
      BY <1>1, <2>2 DEF c
    <2>3. QED
      BY <1>0, <1>1, <2>1, <2>2
  <1>5. QED
    BY <1>0, <1>1, <1>2, <1>3, <1>4 DEF c

LEMMA CallStarts ==
  ASSUME NEW base \in 0 .. Len(sent), Inv(base), Len(calls) < MaxCalls,
         NEW req \in Requests[Len(calls) + 1], CallStart(req)
  PROVE  Inv(base)' /\ CallsKeep /\ SentKeeps
  <1> DEFINE n == Len(calls) + 1
             call == [req |-> req, written |-> closed,
                      result |-> IF closed THEN Closed ELSE Pending]
  <1> USE DEF Inv
  <1>1. /\ Len(calls) \in Nat /\ IsQueue(calls)' /\ Len(calls') = n
        /\ \A k \in 1 .. Len(calls) : calls'[k] = calls[k]
        /\ calls'[n].req = req /\ calls'[n].result = IF closed THEN Closed ELSE Pending
        /\ CallsKeep
        /\ Len(calls') <= MaxCalls
        /\ \A k \in 1 .. Len(calls') :
               /\ calls'[k] = [req |-> calls'[k].req, written |-> calls'[k].written,
                               result |-> calls'[k].result]
               /\ calls'[k].req \in Requests[k]
               /\ calls'[k].written \in BOOLEAN
    <2>1. closed \in BOOLEAN /\ calls' = Append(calls, call)
      BY DEF CallStart, CloseInv
    <2> HIDE DEF Inv
    <2>2. CallInv
      BY DEF Inv
    <2>3. QED
      BY <2>1, <2>2, NewCall

  <1>2. CallInv'
    <2>1. ASSUME NEW c \in DOMAIN waiters'
          PROVE  /\ waiters'[c] \in 1 .. Len(calls')
                 /\ Corr(waiters'[c]) = c
                 /\ calls'[waiters'[c]].result = Pending
      <3>1. CASE c \in DOMAIN waiters /\ waiters'[c] = waiters[c]
        BY <1>1, <3>1 DEF CallInv
      <3>2. CASE ~closed /\ c = Corr(n) /\ waiters'[c] = n
        BY <1>1, <3>2
      <3>3. QED
        BY <3>1, <3>2 DEF CallStart, With
    <2>2. QED
      BY <1>1, <2>1 DEF CallInv
  <1>3. SentInv'
    BY <1>1 DEF SentInv, CallStart
  <1>4. SentKeeps
    BY DEF SentKeeps, SentInv, CallStart, IsQueue
  <1>5. TaskInv(base)' /\ AnswerInv(base)'
    BY <1>1, <1>4, BrokerSideStays DEF CallStart, brokerVars
  <1>6. FlowInv(base)' /\ DownInv'
    BY <1>1, FlowStays, DownStays DEF CallStart, brokerVars
  <1>7. ResultInv'
    BY <1>1 DEF CallStart, brokerVars, ResultInv, Answered, Specials
  <1>8. CloseInv'
    <2>1. Reason => Reason'
      BY <1>1, <1>4, FrameTooLargeStays DEF Reason, AnswersKeep, CallStart, brokerVars
    <2>2. ASSUME NEW k \in 1 .. Len(calls'), calls'[k].result = Closed
          PROVE  Reason'
      BY <1>1, <2>1, <2>2 DEF CloseInv, CallStart, Closed, Pending
    <2>3. QED
      BY <2>1, <2>2 DEF CloseInv, CallStart, brokerVars
  <1>9. QED
    BY <1>1, <1>2, <1>3, <1>4, <1>5, <1>6, <1>7, <1>8 DEF CallStart

\* A call in progress is marked as written, or given its result.
LEMMA CallChanges ==
  ASSUME CallInv, NEW k \in 1 .. Len(calls), NEW w \in BOOLEAN, NEW r,
         calls' = [calls EXCEPT ![k] = [req |-> calls[k].req, written |-> w, result |-> r]]
  PROVE  /\ IsQueue(calls)' /\ Len(calls') = Len(calls)
         /\ \A j \in 1 .. Len(calls) : j # k => calls'[j] = calls[j]
         /\ calls'[k] = [req |-> calls[k].req, written |-> w, result |-> r]
         /\ CallsKeep
         /\ \A j \in 1 .. Len(calls') :
               /\ calls'[j] = [req |-> calls'[j].req, written |-> calls'[j].written,
                               result |-> calls'[j].result]
               /\ calls'[j].req \in Requests[j]
               /\ calls'[j].written \in BOOLEAN
  <1> DEFINE c == [req |-> calls[k].req, written |-> w, result |-> r]
             R == {calls[i] : i \in 1 .. Len(calls)} \cup {c}
  <1>0. Len(calls) \in Nat /\ IsQueue(calls)
    BY DEF CallInv, IsQueue
  <1>1. calls \in Seq(R) /\ c \in R
    <2>1. calls \in Seq({calls[i] : i \in 1 .. Len(calls)})
      BY <1>0, QueueIsSeq
    <2>2. QED
      BY <2>1
  <1>2. calls' = [calls EXCEPT ![k] = c]
    OBVIOUS
  <1> HIDE DEF c, R
  <1>3. calls' \in Seq(R) /\ Len(calls') = Len(calls)
    BY <1>0, <1>1, <1>2
  <1>4. IsQueue(calls)'
    BY <1>3, SeqIsQueue, Zenon
  <1>5. calls'[k] = c /\ \A j \in 1 .. Len(calls) : j # k => calls'[j] = calls[j]
    BY <1>0, <1>1, <1>2
  <1>6. CallsKeep
    BY <1>0, <1>3, <1>4, <1>5 DEF CallsKeep, c
  <1>7. ASSUME NEW j \in 1 .. Len(calls')
        PROVE  /\ calls'[j] = [req |-> calls'[j].req, written |-> calls'[j].written,
                               result |-> calls'[j].result]
               /\ calls'[j].req \in Requests[j]
               /\ calls'[j].written \in BOOLEAN
    BY <1>3, <1>5 DEF CallInv, c
  <1>8. QED
    BY <1>3, <1>4, <1>5, <1>6, <1>7 DEF c

\* A frame of a written call that was not sent before is queued at the end of up, and
\* lost if the network is cut.
LEMMA FrameQueued ==
  ASSUME NEW base \in 0 .. Len(sent), SentInv, FlowInv(base), IsQueue(up), CallsKeep,
         NEW k \in 1 .. Len(calls'), \A i \in 1 .. Len(sent) : sent[i] # k,
         calls'[k].written,
         \A j \in 1 .. Len(calls) : calls[j].written => calls'[j].written,
         sent' = Append(sent, k), Push(k, calls'[k].req), cut' = cut
  PROVE  SentInv' /\ SentKeeps /\ FlowInv(base)' /\ base \in 0 .. Len(sent')
  <1>1. /\ IsQueue(sent)' /\ Len(sent') = Len(sent) + 1 /\ Len(sent) \in Nat
        /\ \A i \in 1 .. Len(sent) : sent'[i] = sent[i]
        /\ sent'[Len(sent) + 1] = k
    BY QueueAppend DEF SentInv, IsQueue
  <1>2. SentKeeps
    BY <1>1 DEF SentKeeps
  <1>3. SentInv'
    <2>1. \A i \in 1 .. Len(sent') : sent'[i] \in 1 .. Len(calls') /\ calls'[sent'[i]].written
      BY SMTT(30), <1>1 DEF SentInv, CallsKeep, IsQueue
    <2>2. \A i, j \in 1 .. Len(sent') : sent'[i] = sent'[j] => i = j
      BY <1>1 DEF SentInv
    <2>3. QED
      BY <1>1, <2>1, <2>2 DEF SentInv
  <1>4. \A i \in 1 .. Len(up) : base + i \in 1 .. Len(sent)
    BY <1>1 DEF FlowInv, IsQueue
  <1>5. \A i \in 1 .. Len(up) :
           up[i] = PutRequest(calls'[sent'[base + i]].req, Corr(sent'[base + i]))
    <2>1. ASSUME NEW i \in 1 .. Len(up)
          PROVE  up[i] = PutRequest(calls'[sent'[base + i]].req, Corr(sent'[base + i]))
      <3> DEFINE j == base + i
      <3>1. j \in 1 .. Len(sent)
        BY <1>4
      <3>2. up[i] = PutRequest(calls[sent[j]].req, Corr(sent[j]))
        BY DEF FlowInv
      <3> HIDE DEF j
      <3>3. sent'[j] = sent[j] /\ calls'[sent[j]].req = calls[sent[j]].req
        BY <1>1, <3>1 DEF SentInv, CallsKeep
      <3>4. QED
        BY <3>2, <3>3 DEF j
    <2>2. QED
      BY <2>1
  <1>6. FlowInv(base)'
    <2>1. CASE cut
      BY <1>1, <1>5, <2>1 DEF FlowInv, Push, IsQueue
    <2>2. CASE ~cut
      <3>1. /\ IsQueue(up)' /\ Len(up') = Len(up) + 1 /\ Len(up) \in Nat
            /\ \A i \in 1 .. Len(up) : up'[i] = up[i]
            /\ up'[Len(up) + 1] = PutRequest(calls'[k].req, Corr(k))
        BY <2>2, QueueAppend DEF Push, IsQueue
      <3>2. base + Len(up) = Len(sent)
        BY <2>2 DEF FlowInv
      <3>3. ASSUME NEW i \in 1 .. Len(up')
            PROVE  up'[i] = PutRequest(calls'[sent'[base + i]].req, Corr(sent'[base + i]))
        <4>1. CASE i \in 1 .. Len(up)
          BY <1>5, <3>1, <4>1
        <4>2. CASE i = Len(up) + 1
          <5>1. base + i = Len(sent) + 1
            BY <1>1, <3>2, <3>1, <4>2
          <5>2. QED
            BY <1>1, <3>1, <4>2, <5>1
        <4>3. i \in 1 .. Len(up) \/ i = Len(up) + 1
          BY <3>1
        <4>4. QED
          BY <4>1, <4>2, <4>3
      <3>4. base + Len(up') = Len(sent')
        <4>1. base \in Nat /\ Len(up) \in Nat /\ Len(sent) \in Nat
          BY <1>1, <3>1
        <4>2. Len(up') = Len(up) + 1 /\ Len(sent') = Len(sent) + 1
          BY <1>1, <3>1, Zenon
        <4>3. QED
          BY SMTT(30), <3>2, <4>1, <4>2
      <3>5. base + Len(up') <= Len(sent')
        BY <1>1, <3>4
      <3>6. QED
        BY <3>1, <3>3, <3>4, <3>5 DEF FlowInv
    <2>3. QED
      BY <2>1, <2>2
  <1>7. QED
    BY <1>1, <1>2, <1>3, <1>6

\* The EXCEPT expressions the actions write, as records.
LEMMA FieldsOfCall ==
  ASSUME NEW c, c = [req |-> c.req, written |-> c.written, result |-> c.result], NEW r
  PROVE  /\ [c EXCEPT !.written = TRUE] = [req |-> c.req, written |-> TRUE, result |-> c.result]
         /\ [c EXCEPT !.result = r] = [req |-> c.req, written |-> c.written, result |-> r]
         /\ [c EXCEPT !.written = TRUE, !.result = r] =
               [req |-> c.req, written |-> TRUE, result |-> r]
  <1> DEFINE S == [req : {c.req}, written : {c.written, TRUE}, result : {c.result, r}]
             d == [c EXCEPT !.written = TRUE]
             e == [c EXCEPT !.result = r]
             f == [c EXCEPT !.written = TRUE, !.result = r]
  <1>1. c \in S
    OBVIOUS
  <1>2. /\ d \in S /\ d.req = c.req /\ d.written = TRUE /\ d.result = c.result
        /\ e \in S /\ e.req = c.req /\ e.written = c.written /\ e.result = r
        /\ f \in S /\ f.req = c.req /\ f.written = TRUE /\ f.result = r
    BY <1>1
  <1> HIDE DEF d, e, f
  <1>3. /\ d = [req |-> d.req, written |-> d.written, result |-> d.result]
        /\ e = [req |-> e.req, written |-> e.written, result |-> e.result]
        /\ f = [req |-> f.req, written |-> f.written, result |-> f.result]
    BY <1>2
  <1>4. /\ d = [req |-> c.req, written |-> TRUE, result |-> c.result]
        /\ e = [req |-> c.req, written |-> c.written, result |-> r]
        /\ f = [req |-> c.req, written |-> TRUE, result |-> r]
    BY <1>2, <1>3
  <1>5. QED
    BY <1>4 DEF d, e, f

LEMMA CallSends ==
  ASSUME NEW base \in 0 .. Len(sent), Inv(base), NEW k \in 1 .. Len(calls), CallSend(k)
  PROVE  Inv(base)' /\ CallsKeep /\ SentKeeps
  <1> DEFINE r == IF writerUp THEN calls[k].result ELSE Closed
             c == [req |-> calls[k].req, written |-> TRUE, result |-> r]
  <1> USE DEF Inv
  <1>0. calls' = [calls EXCEPT ![k] = c]
    <2>1. calls[k] = [req |-> calls[k].req, written |-> calls[k].written,
                      result |-> calls[k].result]
      BY DEF CallInv
    <2>2. /\ [calls[k] EXCEPT !.written = TRUE] =
                [req |-> calls[k].req, written |-> TRUE, result |-> calls[k].result]
          /\ [calls[k] EXCEPT !.written = TRUE, !.result = Closed] =
                [req |-> calls[k].req, written |-> TRUE, result |-> Closed]
      BY <2>1, FieldsOfCall
    <2>3. CASE writerUp
      BY <2>2, <2>3 DEF CallSend
    <2>4. CASE ~writerUp
      BY <2>2, <2>4 DEF CallSend
    <2>5. QED
      BY <2>3, <2>4
  <1>1. /\ IsQueue(calls)' /\ Len(calls') = Len(calls)
        /\ \A j \in 1 .. Len(calls) : j # k => calls'[j] = calls[j]
        /\ calls'[k].req = calls[k].req /\ calls'[k].written /\ calls'[k].result = r
        /\ CallsKeep
        /\ \A j \in 1 .. Len(calls') :
              /\ calls'[j] = [req |-> calls'[j].req, written |-> calls'[j].written,
                              result |-> calls'[j].result]
              /\ calls'[j].req \in Requests[j]
              /\ calls'[j].written \in BOOLEAN
    <2> HIDE DEF Inv, r
    <2>1. CallInv
      BY DEF Inv
    <2>2. calls' = [calls EXCEPT ![k] = [req |-> calls[k].req, written |-> TRUE, result |-> r]]
      BY <1>0
    <2>3. calls'[k] = [req |-> calls[k].req, written |-> TRUE, result |-> r]
      BY <2>1, <2>2, CallChanges
    <2>4. calls'[k].req = calls[k].req /\ calls'[k].written /\ calls'[k].result = r
      BY <2>3
    <2>5. QED
      BY <2>1, <2>2, <2>4, CallChanges
  <1>2. CallInv'
    <2>1. ASSUME NEW x \in DOMAIN waiters'
          PROVE  /\ waiters'[x] \in 1 .. Len(calls')
                 /\ Corr(waiters'[x]) = x
                 /\ calls'[waiters'[x]].result = Pending
      BY SMTT(30), <1>1 DEF CallInv, CallSend, Without
    <2>2. QED
      BY <1>1, <2>1 DEF CallInv
  <1>3. SentInv' /\ SentKeeps /\ FlowInv(base)' /\ base \in 0 .. Len(sent')
    <2>1. CASE writerUp
      <3>1. /\ \A i \in 1 .. Len(sent) : sent[i] # k
            /\ \A j \in 1 .. Len(calls) : calls[j].written => calls'[j].written
            /\ k \in 1 .. Len(calls') /\ IsQueue(up)
        BY <1>1 DEF CallSend, SentInv, FlowInv
      <3>2. sent' = Append(sent, k) /\ Push(k, calls'[k].req) /\ cut' = cut
        BY <1>1, <2>1 DEF CallSend, Push
      <3>3. SentInv /\ FlowInv(base) /\ CallsKeep /\ calls'[k].written
        BY <1>1
      <3>4. QED
        BY <3>1, <3>2, <3>3, FrameQueued
    <2>2. CASE ~writerUp
      BY <1>1, <2>2, FlowStays DEF CallSend, SentInv, SentKeeps
    <2>3. QED
      BY <2>1, <2>2
  <1>4. TaskInv(base)' /\ AnswerInv(base)'
    BY <1>1, <1>3, BrokerSideStays DEF CallSend, brokerVars
  <1>5. DownInv'
    BY DownStays DEF CallSend, brokerVars
  <1>6. ResultInv'
    BY <1>1 DEF CallSend, brokerVars, ResultInv, Answered, Specials
  <1>7. CloseInv'
    <2>1. Reason => Reason'
      BY <1>1, <1>3, FrameTooLargeStays DEF Reason, AnswersKeep, CallSend, brokerVars
    <2>2. ~ writerUp => Reason
      <3>1. dropped => calls[k].written
        BY <1>1 DEF CloseInv, Returned
      <3>2. ~ writerUp => cut \/ session = "gone"
        BY <1>1 DEF CloseInv
      <3>3. session = "gone" => Reason \/ dropped
        BY <1>1 DEF CloseInv
      <3>4. QED
        BY <1>1, <3>1, <3>2, <3>3 DEF Reason, CallSend
    <2>3. ASSUME NEW j \in 1 .. Len(calls'), calls'[j].result = Closed
          PROVE  Reason'
      <3>1. calls'[j].result = Closed => j \in 1 .. Len(calls) /\ (calls[j].result = Closed \/ ~ writerUp)
        BY <1>1 DEF CallSend
      <3>2. calls[j].result = Closed /\ j \in 1 .. Len(calls) => Reason
        BY <1>1 DEF CloseInv
      <3>3. QED
        BY <2>1, <2>2, <2>3, <3>1, <3>2
    <2>4. QED
      BY <1>1, <2>1, <2>3 DEF CloseInv, CallSend, brokerVars, Returned
  <1>8. QED
    BY <1>1, <1>2, <1>3, <1>4, <1>5, <1>6, <1>7

LEMMA OnlySends ==
  ASSUME NEW base \in 0 .. Len(sent), Inv(base), Len(calls) < MaxCalls,
         NEW req \in Requests[Len(calls) + 1], SendOnly(req)
  PROVE  Inv(base)' /\ CallsKeep /\ SentKeeps
  <1> DEFINE n == Len(calls) + 1
             r == IF writerUp THEN Unanswered ELSE Closed
  <1> USE DEF Inv
  <1>1. /\ Len(calls) \in Nat /\ IsQueue(calls)' /\ Len(calls') = n
        /\ \A k \in 1 .. Len(calls) : calls'[k] = calls[k]
        /\ calls'[n].req = req /\ calls'[n].written /\ calls'[n].result = r
        /\ CallsKeep
        /\ Len(calls') <= MaxCalls
        /\ \A k \in 1 .. Len(calls') :
               /\ calls'[k] = [req |-> calls'[k].req, written |-> calls'[k].written,
                               result |-> calls'[k].result]
               /\ calls'[k].req \in Requests[k]
               /\ calls'[k].written \in BOOLEAN
    <2>1. calls' = Append(calls, [req |-> req, written |-> TRUE, result |-> r])
      BY DEF SendOnly
    <2> HIDE DEF Inv, r
    <2>2. CallInv
      BY DEF Inv
    <2>3. calls'[n] = [req |-> req, written |-> TRUE, result |-> r]
      BY <2>1, <2>2, NewCall
    <2>4. calls'[n].req = req /\ calls'[n].written /\ calls'[n].result = r
      BY <2>3
    <2>5. QED
      BY <2>1, <2>2, <2>4, NewCall
  <1>2. CallInv'
    <2>1. \A c \in DOMAIN waiters' : /\ waiters'[c] \in 1 .. Len(calls')
                                     /\ Corr(waiters'[c]) = c
                                     /\ calls'[waiters'[c]].result = Pending
      BY <1>1 DEF CallInv, SendOnly
    <2>2. QED
      BY <1>1, <2>1 DEF CallInv
  <1>3. SentInv' /\ SentKeeps /\ FlowInv(base)' /\ base \in 0 .. Len(sent')
    <2>1. CASE writerUp
      <3>1. /\ \A i \in 1 .. Len(sent) : sent[i] # n
            /\ \A j \in 1 .. Len(calls) : calls[j].written => calls'[j].written
            /\ n \in 1 .. Len(calls') /\ IsQueue(up)
        BY <1>1 DEF SentInv, FlowInv
      <3>2. sent' = Append(sent, n) /\ Push(n, calls'[n].req) /\ cut' = cut
        BY <1>1, <2>1 DEF SendOnly
      <3>3. SentInv /\ FlowInv(base) /\ CallsKeep /\ calls'[n].written
        BY <1>1
      <3>4. QED
        BY <3>1, <3>2, <3>3, FrameQueued
    <2>2. CASE ~writerUp
      <3>1. UNCHANGED <<sent, up, cut>>
        BY <2>2 DEF SendOnly
      <3>2. SentInv' /\ SentKeeps
        BY <1>1, <3>1 DEF SentInv, SentKeeps
      <3>3. QED
        BY <1>1, <3>1, <3>2, FlowStays
    <2>3. QED
      BY <2>1, <2>2
  <1>4. TaskInv(base)' /\ AnswerInv(base)'
    BY <1>1, <1>3, BrokerSideStays DEF SendOnly, brokerVars
  <1>5. DownInv'
    BY DownStays DEF SendOnly, brokerVars
  <1>6. ResultInv'
    BY <1>1 DEF SendOnly, brokerVars, ResultInv, Answered, Specials
  <1>7. CloseInv'
    <2>1. Reason => Reason'
      BY <1>1, <1>3, FrameTooLargeStays DEF Reason, AnswersKeep, SendOnly, brokerVars
    <2>2. ~ writerUp => Reason
      BY <1>1 DEF CloseInv, Reason, SendOnly
    <2>3. ASSUME NEW j \in 1 .. Len(calls'), calls'[j].result = Closed
          PROVE  Reason'
      BY <1>1, <2>1, <2>2, <2>3 DEF CloseInv, Unanswered, Closed
    <2>4. QED
      BY <1>1, <2>1, <2>3 DEF CloseInv, SendOnly, brokerVars
  <1>8. QED
    BY <1>1, <1>2, <1>3, <1>4, <1>5, <1>6, <1>7

\* A step that touches neither calls nor frames nor answers.
LEMMA QuietStep ==
  ASSUME NEW base \in 0 .. Len(sent), Inv(base), cut => cut',
         UNCHANGED <<calls, waiters, sent, up, down, tasks, handled>>
  PROVE  /\ CallInv' /\ SentInv' /\ DownInv' /\ ResultInv'
         /\ FlowInv(base)' /\ TaskInv(base)' /\ AnswerInv(base)'
         /\ FrameTooLarge' = FrameTooLarge
  <1>1. CallInv' /\ SentInv' /\ DownInv' /\ ResultInv'
    BY DEF Inv, CallInv, SentInv, DownInv, ResultInv, Answered
  <1>2. FlowInv(base)'
    BY DEF Inv, FlowInv
  <1>3. AnswerInv(base)'
    BY DEF Inv, AnswerInv, Answered
  <1>4. TaskInv(base)'
    BY DEF Inv, TaskInv, Answered, From
  <1>5. FrameTooLarge' = FrameTooLarge
    BY DEF FrameTooLarge
  <1>6. QED
    BY <1>1, <1>2, <1>3, <1>4, <1>5

LEMMA WriterEnds ==
  ASSUME NEW base \in 0 .. Len(sent), Inv(base), WriterFails
  PROVE  Inv(base)'
  <1>1. CloseInv'
    BY QuietStep DEF Inv, WriterFails, brokerVars, CloseInv, Reason, Returned
  <1>2. QED
    BY <1>1, QuietStep DEF Inv, WriterFails, brokerVars

LEMMA ConnectionDrops ==
  ASSUME NEW base \in 0 .. Len(sent), Inv(base), DropConnection
  PROVE  Inv(base)'
  <1>1. DOMAIN calls = 1 .. Len(calls)
    BY QueueIsSeq DEF Inv, CallInv
  <1>2. CloseInv'
    BY <1>1, QuietStep DEF Inv, DropConnection, CloseInv, Reason, brokerVars, Returned
  <1>3. QED
    BY <1>2, QuietStep DEF Inv, DropConnection, brokerVars

\* What is left of the connection when the reader task ends.
LEMMA ReaderEnds ==
  ASSUME CallInv, ReaderExits
  PROVE  /\ CallInv' /\ CallsKeep /\ Len(calls') = Len(calls)
         /\ \A k \in 1 .. Len(calls) :
               /\ calls'[k].written = calls[k].written
               /\ \/ calls'[k].result = calls[k].result
                  \/ calls'[k].result = Closed /\ calls[k].result = Pending
  <1>1. DOMAIN calls = 1 .. Len(calls) /\ Len(calls) \in Nat /\ IsQueue(calls)
    BY QueueIsSeq DEF CallInv, IsQueue
  <1>2. IsQueue(calls)' /\ Len(calls') = Len(calls)
    <2> DEFINE F(k) == IF \E c \in DOMAIN waiters : waiters[c] = k
                       THEN [calls[k] EXCEPT !.result = Closed] ELSE calls[k]
    <2>1. calls' = [k \in 1 .. Len(calls) |-> F(k)]
      BY <1>1 DEF ReaderExits
    <2> HIDE DEF F
    <2>2. calls' \in Seq({F(k) : k \in 1 .. Len(calls)}) /\ Len(calls') = Len(calls)
      BY <1>1, <2>1
    <2>3. QED
      BY <2>2, SeqIsQueue, Zenon
  <1>3. ASSUME NEW k \in 1 .. Len(calls)
        PROVE  /\ calls'[k] = [req |-> calls'[k].req, written |-> calls'[k].written,
                               result |-> calls'[k].result]
               /\ calls'[k].req = calls[k].req
               /\ calls'[k].written = calls[k].written
               /\ \/ calls'[k].result = calls[k].result
                  \/ calls'[k].result = Closed /\ calls[k].result = Pending
    <2>1. calls[k] = [req |-> calls[k].req, written |-> calls[k].written,
                      result |-> calls[k].result]
      BY DEF CallInv
    <2>2. [calls[k] EXCEPT !.result = Closed] =
            [req |-> calls[k].req, written |-> calls[k].written, result |-> Closed]
      BY <2>1, FieldsOfCall
    <2>3. CASE \E c \in DOMAIN waiters : waiters[c] = k
      <3>1. calls'[k] = [req |-> calls[k].req, written |-> calls[k].written, result |-> Closed]
        BY <1>1, <2>2, <2>3 DEF ReaderExits
      <3>2. calls[k].result = Pending
        BY <2>3 DEF CallInv
      <3>3. QED
        BY <3>1, <3>2
    <2>4. CASE ~ \E c \in DOMAIN waiters : waiters[c] = k
      <3>1. calls'[k] = calls[k]
        BY <1>1, <2>4 DEF ReaderExits
      <3>2. QED
        BY <2>1, <3>1
    <2>5. QED
      BY <2>3, <2>4
  <1>4. CallsKeep
    <2>1. \A k \in 1 .. Len(calls) : calls'[k].req = calls[k].req
      BY <1>3, Zenon
    <2>2. Len(calls) <= Len(calls')
      BY <1>1, <1>2
    <2>3. QED
      BY <1>2, <2>1, <2>2, Zenon DEF CallsKeep
  <1>5. CallInv'
    <2>1. DOMAIN waiters' = {}
      BY DEF ReaderExits
    <2>2. \A k \in 1 .. Len(calls') : calls'[k].req \in Requests[k] /\ calls'[k].written \in BOOLEAN
      BY <1>2, <1>3 DEF CallInv
    <2>3. QED
      BY <1>2, <1>3, <2>1, <2>2 DEF CallInv
  <1>6. QED
    BY <1>2, <1>3, <1>4, <1>5

\* The reader task may end when there is a reason, or nobody is left to be told.
LEMMA ExitKeepsInv ==
  ASSUME NEW base \in 0 .. Len(sent), Inv(base), ReaderExits, Reason \/ dropped,
         UNCHANGED <<writerUp, dropped, sent, session, stopping, tasks, handled, up, cut>>,
         DownInv'
  PROVE  Inv(base)' /\ CallsKeep /\ SentKeeps
  <1> USE DEF Inv
  <1>1. /\ CallInv' /\ CallsKeep /\ Len(calls') = Len(calls)
        /\ \A k \in 1 .. Len(calls) :
              /\ calls'[k].written = calls[k].written
              /\ \/ calls'[k].result = calls[k].result
                 \/ calls'[k].result = Closed /\ calls[k].result = Pending
    BY ReaderEnds
  <1>2. SentInv' /\ SentKeeps
    BY <1>1 DEF SentInv, SentKeeps
  <1>3. FlowInv(base)'
    BY <1>1, FlowStays
  <1>4. TaskInv(base)' /\ AnswerInv(base)'
    BY <1>1, <1>2, BrokerSideStays
  <1>5. ResultInv'
    BY <1>1 DEF ResultInv, Answered, Specials
  <1>6. CloseInv'
    <2>1. Reason => Reason'
      BY <1>1, <1>2, FrameTooLargeStays DEF Reason, AnswersKeep
    <2>2. ASSUME NEW k \in 1 .. Len(calls'), calls'[k].result = Closed
          PROVE  Reason'
      BY <1>1, <2>1, <2>2 DEF CloseInv, Returned
    <2>3. dropped' => \A k \in 1 .. Len(calls') : Returned(k)'
      BY <1>1 DEF CloseInv, Returned, Pending, Closed
    <2>4. closed' \in BOOLEAN
      BY DEF ReaderExits
    <2>5. QED
      BY <2>1, <2>2, <2>3, <2>4 DEF CloseInv
  <1>7. QED
    BY <1>1, <1>2, <1>3, <1>4, <1>5, <1>6

LEMMA ReaderReachesTheEnd ==
  ASSUME NEW base \in 0 .. Len(sent), Inv(base), ReadEnds
  PROVE  Inv(base)' /\ CallsKeep /\ SentKeeps
  <1>1. DownInv'
    BY DownStays DEF Inv, ReadEnds, brokerVars
  <1>2. Reason \/ dropped
    BY DEF Inv, ReadEnds, CloseInv, Reason
  <1>3. QED
    BY <1>1, <1>2, ExitKeepsInv DEF ReadEnds, brokerVars

\* What the reader takes off the queue is an answer.
LEMMA HeadIsAnswer ==
  ASSUME DownInv, down # <<>>, down' = Tail(down), handled' = handled
  PROVE  /\ DownInv'
         /\ \E c \in DOMAIN handled :
               Answered(c) /\ Head(down) = PutResponse(handled[c].answer, c)
  <1>1. /\ IsQueue(down)' /\ Len(down) \in Nat /\ Len(down) >= 1
        /\ Len(down') = Len(down) - 1 /\ Head(down) = down[1]
        /\ \A i \in 1 .. Len(down) - 1 : down'[i] = down[i + 1]
    BY QueueTail DEF DownInv, IsQueue
  <1>2. \A i \in 1 .. Len(down') : down'[i] = down[i + 1] /\ i + 1 \in 1 .. Len(down)
    BY <1>1
  <1>3. QED
    BY <1>1, <1>2 DEF DownInv, Answered

\* An answer has the type of the request, so it is none of the special results.
LEMMA AnswerTypes ==
  ASSUME NEW base \in 0 .. Len(sent), SentInv, CallInv, AnswerInv(base),
         NEW c \in DOMAIN handled, Answered(c)
  PROVE  /\ handled[c].answer \notin Specials
         /\ \A k \in 1 .. Len(calls) :
               Corr(k) = c => handled[c].answer.type = calls[k].req.type
  <1>1. PICK i \in 1 .. base :
           c = Corr(sent[i]) /\ handled[c].answer.type = calls[sent[i]].req.type
    BY DEF AnswerInv
  <1>2. sent[i] \in 1 .. Len(calls) /\ sent[i] \in 1 .. MaxCalls
    BY CorrIsCall DEF SentInv, CallInv, IsQueue
  <1>3. calls[sent[i]].req \in Requests[sent[i]]
    BY <1>2 DEF CallInv
  <1>4. calls[sent[i]].req.type \notin {"Pending", "Closed", "Unanswered"}
    BY <1>2, <1>3, RequestTypes
  <1>5. \A k \in 1 .. Len(calls) : Corr(k) = c => k = sent[i]
    BY <1>1, <1>2, CorrIsCall DEF CallInv, IsQueue
  <1>6. QED
    BY <1>1, <1>4, <1>5 DEF Specials, Pending, Closed, Unanswered

LEMMA ResponseArrives ==
  ASSUME NEW base \in 0 .. Len(sent), Inv(base), CodecInverts, ReceiveResponse
  PROVE  Inv(base)' /\ CallsKeep /\ SentKeeps
  <1> USE DEF Inv
  <1> DEFINE got == GetResponse(Head(down))
             frame == Head(down)
  <1>1. UNCHANGED <<writerUp, dropped, sent, session, stopping, tasks, handled, up, cut>>
    BY DEF ReceiveResponse, brokerVars
  <1>2. PICK c \in DOMAIN handled : Answered(c) /\ frame = PutResponse(handled[c].answer, c)
    BY HeadIsAnswer DEF ReceiveResponse, brokerVars
  <1>3. DownInv'
    BY HeadIsAnswer DEF ReceiveResponse, brokerVars
  <1>4. CASE ~Fits(frame) \/ ~got.ok
    <2>1. ReaderExits
      BY <1>4 DEF ReceiveResponse
    <2>2. ~Fits(frame)
      BY <1>2, <1>4 DEF CodecInverts, Answered, Reads
    <2>3. Reason
      BY <1>2, <2>2 DEF Reason, FrameTooLarge, Answered
    <2>4. QED
      BY <1>1, <1>3, <2>1, <2>3, ExitKeepsInv
  <1>5. CASE Fits(frame) /\ got.ok
    <2> DEFINE answer == handled[c].answer
               k == waiters[c]
    <2>1. got.msg = answer /\ got.corr = c
      BY <1>2, <1>5 DEF CodecInverts, Answered, Reads
    <2>2. /\ calls' = IF c \in DOMAIN waiters THEN [calls EXCEPT ![k].result = answer] ELSE calls
          /\ waiters' = Without(waiters, c)
          /\ closed' = closed
      BY <1>5, <2>1 DEF ReceiveResponse
    <2>3. CASE c \notin DOMAIN waiters
      <3>1. UNCHANGED calls
        BY <2>2, <2>3
      <3>2. CallInv'
        BY <2>2, <3>1 DEF CallInv, Without
      <3>3. /\ SentInv' /\ FlowInv(base)' /\ TaskInv(base)' /\ AnswerInv(base)'
            /\ ResultInv' /\ FrameTooLarge' = FrameTooLarge
        BY ZenonT(40), <1>1, <3>1 DEF SentInv, FlowInv, TaskInv, From, AnswerInv, ResultInv,
                          Answered, FrameTooLarge
      <3>4. CloseInv'
        BY <1>1, <2>2, <3>1, <3>3 DEF CloseInv, Reason, Returned
      <3>5. QED
        BY <1>1, <1>3, <3>1, <3>2, <3>3, <3>4, SameKeeps
    <2>4. CASE c \in DOMAIN waiters
      <3>1. k \in 1 .. Len(calls) /\ Corr(k) = c /\ calls[k].result = Pending
        BY <2>4 DEF CallInv
      <3>2. answer \notin Specials
        BY <1>2, AnswerTypes
      <3>3. calls' = [calls EXCEPT ![k] = [req |-> calls[k].req, written |-> calls[k].written,
                                           result |-> answer]]
        <4>1. calls[k] = [req |-> calls[k].req, written |-> calls[k].written,
                          result |-> calls[k].result]
          BY <3>1 DEF CallInv
        <4>2. [calls[k] EXCEPT !.result = answer] =
                 [req |-> calls[k].req, written |-> calls[k].written, result |-> answer]
          BY <4>1, FieldsOfCall
        <4>3. QED
          BY <2>2, <2>4, <4>2
      <3> HIDE DEF k, answer
      <3>4. /\ IsQueue(calls)' /\ Len(calls') = Len(calls) /\ CallsKeep
            /\ \A j \in 1 .. Len(calls) : j # k => calls'[j] = calls[j]
            /\ calls'[k] = [req |-> calls[k].req, written |-> calls[k].written, result |-> answer]
            /\ \A j \in 1 .. Len(calls') :
                  /\ calls'[j] = [req |-> calls'[j].req, written |-> calls'[j].written,
                                  result |-> calls'[j].result]
                  /\ calls'[j].req \in Requests[j]
                  /\ calls'[j].written \in BOOLEAN
        <4> DEFINE w == calls[k].written
        <4>1. CallInv /\ w \in BOOLEAN
          BY <3>1 DEF CallInv
        <4>2. calls' = [calls EXCEPT ![k] = [req |-> calls[k].req, written |-> w,
                                             result |-> answer]]
          BY <3>3
        <4> HIDE DEF Inv, w
        <4>3. calls'[k] = [req |-> calls[k].req, written |-> w, result |-> answer]
          BY <3>1, <4>1, <4>2, CallChanges
        <4>4. QED
          <5>1. calls'[k] = [req |-> calls[k].req, written |-> calls[k].written,
                             result |-> answer]
            BY <4>3 DEF w
          <5>2. QED
            BY <3>1, <4>1, <4>2, <5>1, CallChanges
      <3>5. calls'[k].written = calls[k].written /\ calls'[k].result = answer
        BY <3>4
      <3>6. CallInv'
        <4>1. ASSUME NEW d \in DOMAIN waiters'
              PROVE  /\ waiters'[d] \in 1 .. Len(calls') /\ Corr(waiters'[d]) = d
                     /\ calls'[waiters'[d]].result = Pending
          <5>1. d \in DOMAIN waiters /\ d # c /\ waiters'[d] = waiters[d]
            BY <2>2 DEF Without
          <5>2. /\ waiters[d] \in 1 .. Len(calls) /\ Corr(waiters[d]) = d
                /\ calls[waiters[d]].result = Pending
            BY <5>1 DEF CallInv
          <5>3. waiters[d] # k
            BY <3>1, <5>1, <5>2
          <5>4. QED
            BY <3>4, <5>1, <5>2, <5>3
        <4>2. QED
          BY <3>4, <4>1 DEF CallInv
      <3>7. SentInv' /\ SentKeeps
        <4>1. \A j \in 1 .. Len(calls) : calls'[j].written = calls[j].written
          BY <3>4, <3>5
        <4>2. QED
          BY <1>1, <3>4, <4>1 DEF SentInv, SentKeeps
      <3>8. FlowInv(base)' /\ TaskInv(base)' /\ AnswerInv(base)'
        BY <1>1, <3>4, <3>7, FlowStays, BrokerSideStays
      <3>9. ResultInv'
        BY <1>1, <1>2, <3>1, <3>4, <3>5 DEF ResultInv, Answered, answer
      <3>10. CloseInv'
        <4>1. Reason => Reason'
          BY <1>1, <3>4, <3>7, FrameTooLargeStays DEF Reason, AnswersKeep
        <4>2. \A j \in 1 .. Len(calls') : calls'[j].result = Closed => Reason'
          BY <3>2, <3>4, <3>5, <4>1 DEF CloseInv, Specials
        <4>3. dropped' => \A j \in 1 .. Len(calls') : Returned(j)'
          BY <1>1, <3>2, <3>4, <3>5 DEF CloseInv, Returned, Specials
        <4>4. QED
          BY <1>1, <2>2, <4>1, <4>2, <4>3 DEF CloseInv
      <3>11. QED
        BY <1>1, <1>3, <3>4, <3>6, <3>7, <3>8, <3>9, <3>10
    <2>5. QED
      BY <2>3, <2>4
  <1>6. QED
    BY <1>4, <1>5

LEMMA NetworkCuts ==
  ASSUME NEW base \in 0 .. Len(sent), Inv(base), Cut
  PROVE  Inv(base)'
  <1> USE DEF Inv
  <1>1. PICK i \in 0 .. Len(up) : \E j \in 0 .. Len(down) :
           up' = SubSeq(up, 1, i) /\ down' = SubSeq(down, 1, j)
    BY DEF Cut
  <1>2. PICK j \in 0 .. Len(down) : up' = SubSeq(up, 1, i) /\ down' = SubSeq(down, 1, j)
    BY <1>1
  <1>3. /\ IsQueue(up)' /\ Len(up') = i /\ Len(up) \in Nat
        /\ \A n \in 1 .. i : up'[n] = up[n]
    BY <1>2, QueuePrefix DEF FlowInv, IsQueue
  <1>4. /\ IsQueue(down)' /\ Len(down') = j /\ Len(down) \in Nat
        /\ \A n \in 1 .. j : down'[n] = down[n]
    BY <1>2, QueuePrefix DEF DownInv, IsQueue
  <1>5. UNCHANGED <<calls, waiters, closed, writerUp, dropped, sent, session, stopping,
                    tasks, handled>> /\ cut'
    BY DEF Cut, clientVars, brokerVars
  <1>6. FlowInv(base)'
    <2>1. base + Len(up') <= Len(sent')
      BY <1>3, <1>5 DEF FlowInv, SentInv, IsQueue
    <2>2. QED
      BY SMTT(30), <1>3, <1>5, <2>1 DEF FlowInv
  <1>7. DownInv'
    <2>1. \A n \in 1 .. Len(down') : n \in 1 .. Len(down) /\ down'[n] = down[n]
      BY <1>4
    <2>2. QED
      BY <1>4, <1>5, <2>1 DEF DownInv, Answered
  <1>8. /\ CallInv' /\ SentInv' /\ TaskInv(base)' /\ AnswerInv(base)' /\ ResultInv'
        /\ FrameTooLarge' = FrameTooLarge
    <2>1. CallInv' /\ SentInv' /\ ResultInv'
      BY <1>5 DEF CallInv, SentInv, ResultInv, Answered
    <2>2. AnswerInv(base)'
      BY <1>5 DEF AnswerInv, Answered
    <2>3. TaskInv(base)'
      BY <1>5 DEF TaskInv, From, Answered
    <2>4. FrameTooLarge' = FrameTooLarge
      BY <1>5 DEF FrameTooLarge
    <2>5. QED
      BY <2>1, <2>2, <2>3, <2>4
  <1>9. CloseInv'
    BY <1>5, <1>8 DEF CloseInv, Reason, Returned
  <1>10. QED
    BY <1>5, <1>6, <1>7, <1>8, <1>9

------------------------------------------------------------------------------
(* The broker's steps *)

LEMMA LoopStops ==
  ASSUME NEW base \in 0 .. Len(sent), Inv(base), LoopEnds
  PROVE  Inv(base)'
  <1>1. CloseInv'
    BY QuietStep DEF Inv, LoopEnds, clientVars, CloseInv, Reason, Returned
  <1>2. QED
    BY <1>1, QuietStep DEF Inv, LoopEnds, clientVars

LEMMA SessionStops ==
  ASSUME NEW base \in 0 .. Len(sent), Inv(base), SessionEnds
  PROVE  Inv(base)'
  <1>1. CloseInv'
    BY QuietStep DEF Inv, SessionEnds, clientVars, CloseInv, Reason, Returned
  <1>2. QED
    BY <1>1, QuietStep DEF Inv, SessionEnds, clientVars

LEMMA BrokerStops ==
  ASSUME NEW base \in 0 .. Len(sent), Inv(base), Shutdown
  PROVE  Inv(base)'
  <1>1. CloseInv'
    BY QuietStep DEF Inv, Shutdown, clientVars, CloseInv, Reason, Returned
  <1>2. QED
    BY <1>1, QuietStep DEF Inv, Shutdown, clientVars

\* Answering a taken request that has not been answered.
LEMMA Responds ==
  ASSUME NEW base \in 0 .. Len(sent), CallInv, SentInv, DownInv, ResultInv, AnswerInv(base),
         NEW i \in 1 .. base, NEW corr, corr = Corr(sent[i]), ~Answered(corr),
         NEW resp, resp.type = calls[sent[i]].req.type,
         Respond(corr, resp), UNCHANGED <<calls, sent>>
  PROVE  /\ DownInv' /\ AnswerInv(base)' /\ ResultInv'
         /\ AnswersKeep
         /\ \A c \in DOMAIN handled : c # corr => handled'[c] = handled[c]
  <1>1. sent[i] \in 1 .. Len(calls) /\ sent[i] \in 1 .. MaxCalls
    BY CorrIsCall DEF SentInv, CallInv, IsQueue
  <1>2. resp # Pending
    <2>1. calls[sent[i]].req \in Requests[sent[i]]
      BY <1>1 DEF CallInv
    <2>2. calls[sent[i]].req.type # "Pending"
      BY <1>1, <2>1, RequestTypes
    <2>3. QED
      BY <2>2 DEF Pending
  <1>3. corr \in DOMAIN handled /\ DOMAIN handled' = DOMAIN handled
    BY <1>1 DEF AnswerInv, Respond
  <1>4. /\ handled'[corr] = [answer |-> resp]
        /\ \A c \in DOMAIN handled : c # corr => handled'[c] = handled[c]
    <2>1. handled[corr] = [answer |-> handled[corr].answer]
      BY <1>3 DEF AnswerInv
    <2>2. QED
      BY <1>3, <2>1 DEF Respond
  <1>5. handled'[corr].answer = resp
    BY <1>4
  <1>6. AnswersKeep
    BY <1>3, <1>4 DEF AnswersKeep
  <1>7. AnswerInv(base)'
    <2>1. \A c \in DOMAIN handled' : handled'[c] = [answer |-> handled'[c].answer]
      BY <1>3, <1>4, <1>5 DEF AnswerInv
    <2>2. handled' = [c \in {Corr(k) : k \in 1 .. MaxCalls} |-> [answer |-> handled'[c].answer]]
      BY <1>3, <2>1 DEF AnswerInv, Respond
    <2>3. ASSUME NEW c \in DOMAIN handled', Answered(c)'
          PROVE  \E j \in 1 .. base : c = Corr(sent[j]) /\ handled'[c].answer.type = calls[sent[j]].req.type
      <3>1. CASE c = corr
        BY <1>5, <3>1
      <3>2. CASE c # corr
        BY SMTT(30), <1>3, <1>4, <2>3, <3>2 DEF AnswerInv, Answered
      <3>3. QED
        BY <3>1, <3>2
    <2>4. QED
      BY <2>2, <2>3 DEF AnswerInv
  <1>8. DownInv'
    <2>1. \A c \in DOMAIN handled : Answered(c) => Answered(c)' /\ handled'[c] = handled[c]
      BY <1>6 DEF AnswersKeep, Answered
    <2>2. \A n \in 1 .. Len(down) : \E c \in DOMAIN handled' :
             Answered(c)' /\ down[n] = PutResponse(handled'[c].answer, c)
      BY <1>3, <2>1 DEF DownInv
    <2>3. CASE cut
      BY <2>2, <2>3 DEF DownInv, Respond
    <2>4. CASE ~cut
      <3>1. /\ IsQueue(down)' /\ Len(down') = Len(down) + 1 /\ Len(down) \in Nat
            /\ \A n \in 1 .. Len(down) : down'[n] = down[n]
            /\ down'[Len(down) + 1] = PutResponse(resp, corr)
        BY <2>4, QueueAppend DEF DownInv, Respond, IsQueue
      <3>2. Answered(corr)' /\ corr \in DOMAIN handled'
        BY <1>2, <1>3, <1>5 DEF Answered
      <3>3. ASSUME NEW n \in 1 .. Len(down')
            PROVE  \E c \in DOMAIN handled' :
                      Answered(c)' /\ down'[n] = PutResponse(handled'[c].answer, c)
        <4>1. CASE n \in 1 .. Len(down)
          BY <2>2, <3>1, <4>1
        <4>2. CASE n = Len(down) + 1
          BY <1>5, <3>1, <3>2, <4>2
        <4>3. QED
          BY <3>1, <4>1, <4>2
      <3>4. QED
        BY <3>1, <3>3 DEF DownInv
    <2>5. QED
      BY <2>3, <2>4
  <1>9. ResultInv'
    <2>1. \A k \in 1 .. Len(calls) : Corr(k) \in DOMAIN handled
      BY CorrIsCall DEF CallInv, IsQueue, AnswerInv
    <2>2. QED
      BY <1>6, <2>1 DEF ResultInv, AnswersKeep, Answered
  <1>10. QED
    BY <1>4, <1>6, <1>7, <1>8, <1>9

\* What dispatch does about a request: nothing, an answer at once, or a task.
Ignored == UNCHANGED <<tasks, down, handled>>
AnsweredAtOnce(req, corr) ==
    UNCHANGED tasks /\ \E resp \in {handled'[corr].answer} :
        resp.type = req.type /\ Respond(corr, resp)
TaskSpawned(req, corr) ==
    UNCHANGED <<down, handled>> /\ \E t \in tasks' :
        /\ tasks' = tasks \cup {t} /\ t = Task(corr, t.phase, req, t.resp)
        /\ \/ t.phase \in {"reply", "commit"} /\ t.resp.type = req.type
           \/ t.phase = "read" /\ req.type = "Fetch"

LEMMA RespondIsAnswer ==
  ASSUME NEW corr \in DOMAIN handled, handled[corr] = [answer |-> handled[corr].answer],
         NEW resp, Respond(corr, resp)
  PROVE  handled'[corr].answer = resp
  <1>1. handled' = [handled EXCEPT ![corr].answer = resp]
    BY DEF Respond
  <1>2. handled'[corr] = [handled[corr] EXCEPT !.answer = resp]
    BY <1>1
  <1>3. handled'[corr] = [answer |-> resp]
    BY <1>1
  <1>4. QED
    BY <1>3

LEMMA TaskFields ==
  ASSUME NEW corr, NEW phase, NEW req, NEW resp
  PROVE  LET t == Task(corr, phase, req, resp)
         IN  t.corr = corr /\ t.phase = phase /\ t.req = req /\ t.resp = resp
  BY DEF Task

LEMMA DispatchEffect ==
  ASSUME NEW k \in 1 .. MaxCalls, NEW req \in Requests[k], NEW corr \in DOMAIN handled,
         handled[corr] = [answer |-> handled[corr].answer], Dispatch(req, corr)
  PROVE  Ignored \/ AnsweredAtOnce(req, corr) \/ TaskSpawned(req, corr)
  <1>1. ASSUME NEW resp, resp.type = req.type, Respond(corr, resp), UNCHANGED tasks
        PROVE  AnsweredAtOnce(req, corr)
    BY <1>1, RespondIsAnswer DEF AnsweredAtOnce
  <1>2. ASSUME NEW phase, NEW resp, tasks' = tasks \cup {Task(corr, phase, req, resp)},
               UNCHANGED <<down, handled>>,
               \/ phase \in {"reply", "commit"} /\ resp.type = req.type
               \/ phase = "read" /\ req.type = "Fetch"
        PROVE  TaskSpawned(req, corr)
    <2> DEFINE t == Task(corr, phase, req, resp)
    <2>1. t.corr = corr /\ t.phase = phase /\ t.req = req /\ t.resp = resp
      BY TaskFields
    <2>2. t = Task(corr, t.phase, req, t.resp) /\ t \in tasks' /\ tasks' = tasks \cup {t}
      BY <1>2, <2>1
    <2> HIDE DEF t
    <2>3. QED
      BY <1>2, <2>1, <2>2 DEF TaskSpawned
  <1>3. CASE req.type = "CreateTopic"
    <2>1. UNCHANGED tasks /\ Respond(corr, [type |-> "CreateTopic", error |-> CreateError(req)])
      BY <1>3 DEF Dispatch, DispatchCreate
    <2>2. QED
      BY <1>1, <1>3, <2>1
  <1>4. CASE req.type = "Metadata"
    <2>1. UNCHANGED tasks
          /\ Respond(corr, [type |-> "Metadata", error |-> "None", cluster |-> Metadata])
      BY <1>4 DEF Dispatch, DispatchMetadata
    <2>2. QED
      BY <1>1, <1>4, <2>1
  <1>5. CASE req.type = "Produce"
    <2>1. DispatchProduce(req, corr)
      BY <1>5 DEF Dispatch
    <2>2. \A e, b, n : Produced(e, b, n).type = "Produce"
      BY DEF Produced
    <2>3. AppendAnswer(req).type = "Produce"
      BY <2>2 DEF AppendAnswer
    <2>4. CASE ProduceError(req) # "None"
      BY <1>1, <1>5, <2>1, <2>2, <2>4 DEF DispatchProduce, Ignored
    <2>5. CASE ProduceError(req) = "None"
      <3>1. \/ Ignored
            \/ /\ tasks' = tasks \cup {Task(corr, "reply", req, AppendAnswer(req))}
               /\ UNCHANGED <<down, handled>>
        BY <2>1, <2>5 DEF DispatchProduce, Ignored
      <3>2. QED
        BY <1>2, <1>5, <2>3, <3>1
    <2>6. QED
      BY <2>4, <2>5
  <1>6. CASE req.type = "Fetch"
    <2>1. \/ tasks' = tasks \cup {Task(corr, "read", req, Pending)} /\ UNCHANGED <<down, handled>>
          \/ Respond(corr, Fetched("UnknownTopicOrPartition", 0, <<>>)) /\ UNCHANGED tasks
      BY <1>6 DEF Dispatch, DispatchFetch
    <2>2. Fetched("UnknownTopicOrPartition", 0, <<>>).type = "Fetch"
      BY DEF Fetched
    <2>3. QED
      BY <1>1, <1>2, <1>6, <2>1, <2>2
  <1>7. CASE req.type = "FetchOffset"
    <2>1. PICK offset : UNCHANGED tasks
             /\ Respond(corr, [type |-> "FetchOffset", error |-> "None", offset |-> offset])
      BY <1>7 DEF Dispatch, DispatchFetchOffset
    <2>2. QED
      BY <1>1, <1>7, <2>1
  <1>8. CASE req.type \notin {"CreateTopic", "Metadata", "Produce", "Fetch", "FetchOffset"}
    <2>1. \A resp \in PeerAnswers(req) : resp.type = req.type
      BY <1>8, ConnectionAssumption DEF MaxCalls
    <2>2. CASE req.type = "CommitOffset"
      <3>1. \/ /\ tasks' = tasks \cup {Task(corr, "commit", req,
                                            [type |-> "CommitOffset", error |-> "None"])}
               /\ UNCHANGED <<down, handled>>
            \/ (\E resp \in PeerAnswers(req) : Respond(corr, resp)) /\ UNCHANGED tasks
        BY <2>2 DEF Dispatch, DispatchCommit
      <3>2. QED
        BY <1>1, <1>2, <2>1, <2>2, <3>1
    <2>3. CASE req.type # "CommitOffset"
      <3>1. (\E resp \in PeerAnswers(req) : Respond(corr, resp)) /\ UNCHANGED tasks
        BY <1>8, <2>3 DEF Dispatch, DispatchOther
      <3>2. QED
        BY <1>1, <2>1, <3>1
    <2>4. QED
      BY <2>2, <2>3
  <1>9. QED
    BY <1>3, <1>4, <1>5, <1>6, <1>7, <1>8

\* Taking the next frame: what was owed and answered is so still, and the request it
\* carries is new.
LEMMA NextFrame ==
  ASSUME NEW base \in 0 .. Len(sent), CallInv, SentInv, FlowInv(base), TaskInv(base),
         AnswerInv(base), up # <<>>, up' = Tail(up), UNCHANGED <<calls, sent, cut>>
  PROVE  LET k == sent[base + 1]
         IN  /\ base + 1 \in 0 .. Len(sent) /\ k \in 1 .. Len(calls) /\ k \in 1 .. MaxCalls
             /\ FlowInv(base + 1)' /\ TaskInv(base + 1) /\ AnswerInv(base + 1)
             /\ Head(up) = PutRequest(calls[k].req, Corr(k))
             /\ Corr(k) \in DOMAIN handled /\ ~Answered(Corr(k))
             /\ \A t \in tasks : t.corr # Corr(k)
             /\ calls[k].req \in Requests[k]
  <1> DEFINE k == sent[base + 1]
  <1>1. /\ IsQueue(up)' /\ Len(up) \in Nat /\ Len(up) >= 1
        /\ Len(up') = Len(up) - 1 /\ Head(up) = up[1]
        /\ \A i \in 1 .. Len(up) - 1 : up'[i] = up[i + 1]
    BY QueueTail DEF FlowInv, IsQueue
  <1>2. Len(sent) \in Nat /\ base + 1 \in 1 .. Len(sent)
    BY <1>1 DEF FlowInv, SentInv, IsQueue
  <1>3. k \in 1 .. Len(calls) /\ k \in 1 .. MaxCalls
    BY <1>2, CorrIsCall DEF SentInv, CallInv, IsQueue
  <1>4. FlowInv(base + 1)'
    <2>1. base + 1 + Len(up') = base + Len(up)
      BY <1>1, <1>2
    <2>2. \A i \in 1 .. Len(up') :
             up'[i] = PutRequest(calls[sent[base + 1 + i]].req, Corr(sent[base + 1 + i]))
      <3>1. ASSUME NEW i \in 1 .. Len(up')
            PROVE  up'[i] = PutRequest(calls[sent[base + 1 + i]].req, Corr(sent[base + 1 + i]))
        <4>1. i + 1 \in 1 .. Len(up) /\ up'[i] = up[i + 1] /\ base + (i + 1) = base + 1 + i
          BY <1>1, <1>2
        <4>2. up[i + 1] = PutRequest(calls[sent[base + (i + 1)]].req, Corr(sent[base + (i + 1)]))
          BY <4>1 DEF FlowInv
        <4>3. QED
          BY <4>1, <4>2
      <3>2. QED
        BY <3>1
    <2>3. base + 1 + Len(up') <= Len(sent)
      BY <2>1 DEF FlowInv
    <2>4. cut \/ base + 1 + Len(up') = Len(sent)
      BY <2>1 DEF FlowInv
    <2>5. QED
      BY <1>1, <2>2, <2>3, <2>4 DEF FlowInv
  <1>5. \A j \in 1 .. base : j \in 1 .. Len(sent) /\ Corr(sent[j]) # Corr(k)
    <2>1. ASSUME NEW j \in 1 .. base PROVE j \in 1 .. Len(sent) /\ Corr(sent[j]) # Corr(k)
      <3>1. j \in 1 .. Len(sent) /\ j # base + 1
        BY <1>2
      <3>2. sent[j] # k /\ sent[j] \in 1 .. MaxCalls
        BY <1>2, <3>1, CorrIsCall DEF SentInv, CallInv, IsQueue
      <3>3. QED
        BY <1>3, <3>1, <3>2, CorrIsCall
    <2>2. QED
      BY <2>1
  <1>6. ~Answered(Corr(k)) /\ Corr(k) \in DOMAIN handled
    BY <1>3, <1>5 DEF AnswerInv
  <1>7. \A t \in tasks : t.corr # Corr(k)
    BY <1>5 DEF TaskInv, From
  <1>8. \A j \in 1 .. base : j \in 1 .. base + 1
    BY <1>2
  <1>9. AnswerInv(base + 1)
    BY <1>8 DEF AnswerInv
  <1>10. TaskInv(base + 1)
    <2>1. \A c, r : From(base, c, r) => From(base + 1, c, r)
      BY <1>8 DEF From
    <2>2. \A t \in tasks : From(base + 1, t.corr, t.req)
      BY <2>1 DEF TaskInv
    <2>3. QED
      BY <2>2 DEF TaskInv
  <1>11. Head(up) = PutRequest(calls[k].req, Corr(k))
    BY <1>1 DEF FlowInv
  <1>12. calls[k].req \in Requests[k]
    BY <1>3 DEF CallInv
  <1>13. base + 1 \in 0 .. Len(sent)
    BY <1>2
  <1>14. QED
    BY <1>3, <1>4, <1>6, <1>7, <1>9, <1>10, <1>11, <1>12, <1>13, Zenon

\* Answering a request, while the tasks of others go on.
LEMMA TasksAfterAnswer ==
  ASSUME NEW base \in 0 .. Len(sent), TaskInv(base), NEW corr,
         tasks' \subseteq tasks, \A t \in tasks' : t.corr # corr,
         \A t \in tasks : t.corr \in DOMAIN handled,
         \A c \in DOMAIN handled : c # corr => handled'[c] = handled[c],
         UNCHANGED <<calls, sent>>
  PROVE  TaskInv(base)'
  <1>1. \A t \in tasks' : From(base, t.corr, t.req)' /\ ~Answered(t.corr)'
    <2>1. \A c, r : From(base, c, r) => From(base, c, r)'
      BY DEF From
    <2>2. \A t \in tasks' : handled'[t.corr] = handled[t.corr]
      BY Zenon
    <2>3. QED
      BY <2>1, <2>2 DEF TaskInv, Answered
  <1>2. QED
    BY <1>1 DEF TaskInv

\* Every task's id is one of those the broker keeps answers for.
LEMMA TaskIds ==
  ASSUME NEW base \in 0 .. Len(sent), CallInv, SentInv, TaskInv(base), AnswerInv(base)
  PROVE  \A t \in tasks : t.corr \in DOMAIN handled
  <1>1. \A i \in 1 .. base : Corr(sent[i]) \in DOMAIN handled
    BY CorrIsCall DEF SentInv, CallInv, IsQueue, AnswerInv
  <1>2. QED
    BY <1>1 DEF TaskInv, From

LEMMA FrameServed ==
  ASSUME NEW base \in 0 .. Len(sent), Inv(base), CodecInverts, ServeFrame
  PROVE  Inv(base + 1)'
  <1> USE DEF Inv
  <1> DEFINE k == sent[base + 1]
             corr == Corr(k)
             req == calls[k].req
             got == GetRequest(Head(up))
  <1>1. UNCHANGED <<calls, waiters, closed, writerUp, dropped, sent, stopping, cut>>
    BY DEF ServeFrame, clientVars
  <1>2. /\ base + 1 \in 0 .. Len(sent) /\ k \in 1 .. Len(calls) /\ k \in 1 .. MaxCalls
        /\ FlowInv(base + 1)' /\ TaskInv(base + 1) /\ AnswerInv(base + 1)
        /\ Head(up) = PutRequest(req, corr)
        /\ corr \in DOMAIN handled /\ ~Answered(corr)
        /\ \A t \in tasks : t.corr # corr
        /\ req \in Requests[k]
    BY <1>1, NextFrame DEF ServeFrame
  <1>3. CallInv' /\ SentInv'
    BY <1>1 DEF CallInv, SentInv
  <1>4. session = "loop"
    BY DEF ServeFrame
  <1>5. base + 1 \in 1 .. base + 1
    OBVIOUS
  <1>6. CASE ~Fits(Head(up)) \/ ~got.ok
    <2>1. session' = "draining" /\ UNCHANGED <<tasks, handled, down>>
      BY <1>6 DEF ServeFrame
    <2>2. ~Fits(Head(up))
      <3>1. k \in DOMAIN calls
        BY <1>2, QueueIsSeq DEF CallInv
      <3>2. QED
        BY <1>2, <1>6, <3>1 DEF CodecInverts, Reads
    <2>3. FrameTooLarge
      <3>1. base + 1 \in DOMAIN sent
        BY <1>2, QueueIsSeq DEF SentInv
      <3>2. QED
        BY <1>2, <2>2, <3>1 DEF FrameTooLarge
    <2>4. FrameTooLarge' = FrameTooLarge
      BY <1>1, <2>1 DEF FrameTooLarge
    <2>5. CloseInv'
      BY <1>1, <1>4, <2>1, <2>3, <2>4 DEF CloseInv, Reason, Returned
    <2>6. DownInv' /\ ResultInv'
      BY <1>1, <2>1 DEF DownInv, ResultInv, Answered
    <2>7. TaskInv(base + 1)'
      BY <1>1, <1>2, <2>1 DEF TaskInv, From, Answered
    <2>8. AnswerInv(base + 1)'
      BY <1>1, <1>2, <2>1 DEF AnswerInv, Answered
    <2>9. QED
      BY <1>1, <1>2, <1>3, <2>5, <2>6, <2>7, <2>8
  <1>7. CASE Fits(Head(up)) /\ got.ok
    <2>1. got.msg = req /\ got.corr = corr
      <3>1. k \in DOMAIN calls
        BY <1>2, QueueIsSeq DEF CallInv
      <3>2. QED
        BY <1>2, <1>7, <3>1 DEF CodecInverts, Reads
    <2>2. UNCHANGED session /\ Dispatch(req, corr)
      BY <1>7, <2>1 DEF ServeFrame
    <2>3. handled[corr] = [answer |-> handled[corr].answer]
      BY <1>2 DEF AnswerInv
    <2> HIDE DEF got
    <2>4. Ignored \/ AnsweredAtOnce(req, corr) \/ TaskSpawned(req, corr)
      <3> HIDE DEF req, corr, k
      <3>1. QED
        BY <1>2, <2>2, <2>3, DispatchEffect
    <2>5. CASE Ignored \/ TaskSpawned(req, corr)
      <3>1. UNCHANGED <<handled, down>>
        BY <2>5 DEF Ignored, TaskSpawned
      <3>2. DownInv' /\ ResultInv' /\ FrameTooLarge' = FrameTooLarge
        BY <1>1, <3>1 DEF DownInv, ResultInv, Answered, FrameTooLarge
      <3>3. AnswerInv(base + 1)'
        BY <1>1, <1>2, <3>1 DEF AnswerInv, Answered
      <3>4. CloseInv'
        BY <1>1, <1>4, <2>2, <3>2 DEF CloseInv, Reason, Returned
      <3>5. TaskInv(base + 1)'
        <4>1. CASE Ignored
          BY <1>1, <1>2, <3>1, <4>1 DEF TaskInv, From, Answered, Ignored
        <4>2. CASE TaskSpawned(req, corr)
          <5>1. PICK t \in tasks' :
                   /\ tasks' = tasks \cup {t} /\ t = Task(corr, t.phase, req, t.resp)
                   /\ \/ t.phase \in {"reply", "commit"} /\ t.resp.type = req.type
                      \/ t.phase = "read" /\ req.type = "Fetch"
            BY <4>2 DEF TaskSpawned
          <5>2. t.corr = corr /\ t.req = req
            BY <5>1, TaskFields
          <5>3. From(base + 1, corr, req) /\ \A c, r : From(base + 1, c, r) => From(base + 1, c, r)'
            BY <1>1, <1>5 DEF From
          <5>4. ASSUME NEW u \in tasks'
                PROVE  /\ u = Task(u.corr, u.phase, u.req, u.resp)
                       /\ From(base + 1, u.corr, u.req)'
                       /\ ~Answered(u.corr)'
                       /\ \/ u.phase \in {"reply", "commit", "wait"} /\ u.resp.type = u.req.type
                          \/ u.phase = "read"
                       /\ u.phase \in {"read", "wait"} => u.req.type = "Fetch"
            <6>1. CASE u \in tasks
              BY <1>2, <3>1, <5>3, <6>1 DEF TaskInv, Answered
            <6>2. CASE u = t
              BY <1>2, <3>1, <5>1, <5>2, <5>3, <6>2 DEF Answered
            <6>3. QED
              BY <5>1, <6>1, <6>2
          <5>5. \A u, v \in tasks' : u.corr = v.corr => u = v
            BY <1>2, <5>1, <5>2 DEF TaskInv
          <5>6. QED
            BY <5>4, <5>5 DEF TaskInv
        <4>3. QED
          BY <2>5, <4>1, <4>2
      <3>6. QED
        BY <1>1, <1>2, <1>3, <3>2, <3>3, <3>4, <3>5
    <2>6. CASE AnsweredAtOnce(req, corr)
      <3>1. PICK resp : resp.type = req.type /\ Respond(corr, resp) /\ UNCHANGED tasks
        BY <2>6 DEF AnsweredAtOnce
      <3>2. /\ DownInv' /\ AnswerInv(base + 1)' /\ ResultInv' /\ AnswersKeep
            /\ \A c \in DOMAIN handled : c # corr => handled'[c] = handled[c]
        <4>1. CallInv /\ SentInv /\ DownInv /\ ResultInv /\ AnswerInv(base + 1)
          BY <1>2
        <4> HIDE DEF Inv
        <4>2. QED
          BY <1>1, <1>2, <1>5, <3>1, <4>1, Responds
      <3>3. TaskInv(base + 1)'
        <4>1. \A t \in tasks : t.corr \in DOMAIN handled
          BY TaskIds
        <4>2. QED
          BY <1>1, <1>2, <3>1, <3>2, <4>1, TasksAfterAnswer
      <3>4. Reason => Reason'
        <4>1. CallsKeep /\ SentKeeps
          BY <1>1 DEF CallsKeep, SentKeeps, CallInv, SentInv, IsQueue
        <4>2. QED
          BY <1>1, <3>2, <4>1, FrameTooLargeStays DEF Reason
      <3>5. CloseInv'
        BY <1>1, <1>4, <2>2, <3>4 DEF CloseInv, Returned
      <3>6. QED
        BY <1>1, <1>2, <1>3, <3>2, <3>3, <3>5
    <2>7. QED
      BY <2>4, <2>5, <2>6
  <1>8. QED
    BY <1>6, <1>7

\* A fetch goes from reading to waiting and back.
LEMMA FieldsOfTask ==
  ASSUME NEW t, t = Task(t.corr, t.phase, t.req, t.resp), NEW phase, NEW resp
  PROVE  [t EXCEPT !.phase = phase, !.resp = resp] = Task(t.corr, phase, t.req, resp)
  <1> DEFINE S == [corr : {t.corr}, phase : {t.phase, phase}, req : {t.req},
                   resp : {t.resp, resp}]
             u == [t EXCEPT !.phase = phase, !.resp = resp]
  <1>1. t \in S
    BY DEF Task
  <1>2. u \in S /\ u.corr = t.corr /\ u.phase = phase /\ u.req = t.req /\ u.resp = resp
    BY <1>1
  <1> HIDE DEF u
  <1>3. u = [corr |-> u.corr, phase |-> u.phase, req |-> u.req, resp |-> u.resp]
    BY <1>2
  <1>4. u = Task(t.corr, phase, t.req, resp)
    BY <1>2, <1>3 DEF Task
  <1>5. QED
    BY <1>4 DEF u

\* What a task's step does: it is answered, or it waits, or it reads again.
TaskMoves(t) ==
    UNCHANGED <<down, handled>> /\ \E u \in tasks' :
        /\ tasks' = (tasks \ {t}) \cup {u} /\ u = Task(t.corr, u.phase, t.req, u.resp)
        /\ t.req.type = "Fetch"
        /\ \/ u.phase = "wait" /\ u.resp.type = t.req.type
           \/ u.phase = "read"

LEMMA TaskEffect ==
  ASSUME NEW base \in 0 .. Len(sent), TaskInv(base), NEW t \in tasks, TaskStep(t)
  PROVE  TaskMoves(t) \/ \E resp : resp.type = t.req.type /\ Reply(t, resp)
  <1>1. /\ t = Task(t.corr, t.phase, t.req, t.resp)
        /\ \/ t.phase \in {"reply", "commit", "wait"} /\ t.resp.type = t.req.type
           \/ t.phase = "read"
        /\ t.phase \in {"read", "wait"} => t.req.type = "Fetch"
    BY DEF TaskInv
  <1>2. \A e, n, r : Fetched(e, n, r).type = "Fetch"
    BY DEF Fetched
  <1>3. ASSUME NEW phase, NEW resp, UNCHANGED <<down, handled>>, t.req.type = "Fetch",
               tasks' = (tasks \ {t}) \cup {[t EXCEPT !.phase = phase, !.resp = resp]},
               (phase = "wait" /\ resp.type = "Fetch") \/ phase = "read"
        PROVE  TaskMoves(t)
    <2> DEFINE u == [t EXCEPT !.phase = phase, !.resp = resp]
    <2>1. u = Task(t.corr, phase, t.req, resp)
      <3>1. t = Task(t.corr, t.phase, t.req, t.resp)
        BY <1>1, Zenon
      <3>2. QED
        BY <3>1, FieldsOfTask, Zenon
    <2>2. tasks' = (tasks \ {t}) \cup {u}
      BY <1>3
    <2> HIDE DEF u
    <2>3. u.phase = phase /\ u.resp = resp
      BY <2>1, TaskFields
    <2>4. QED
      BY <1>3, <2>1, <2>2, <2>3 DEF TaskMoves
  <1>4. CASE ReplyReady(t) \/ CommitApplies(t) \/ FetchTimesOut(t)
    <2>1. Reply(t, t.resp) /\ t.phase \in {"reply", "commit", "wait"}
      BY <1>4 DEF ReplyReady, CommitApplies, FetchTimesOut
    <2>2. t.resp.type = t.req.type
      BY <1>1, <2>1
    <2>3. QED
      BY <2>1, <2>2
  <1>5. CASE FetchWakes(t)
    BY <1>1, <1>3, <1>5 DEF FetchWakes
  <1>6. CASE FetchReads(t)
    <2> DEFINE empty == Fetched("None", Len(LogOf(t.req.topic, t.req.partition)), <<>>)
    <2>1. t.req.type = "Fetch" /\ empty.type = "Fetch"
      BY <1>1, <1>2, <1>6 DEF FetchReads
    <2>2. \/ \E e, n, r : Reply(t, Fetched(e, n, r))
          \/ /\ tasks' = (tasks \ {t}) \cup {[t EXCEPT !.phase = "wait", !.resp = empty]}
             /\ UNCHANGED <<down, handled>>
      BY <1>6 DEF FetchReads
    <2>3. CASE \E e, n, r : Reply(t, Fetched(e, n, r))
      BY <1>2, <2>1, <2>3
    <2> HIDE DEF empty
    <2>4. CASE /\ tasks' = (tasks \ {t}) \cup {[t EXCEPT !.phase = "wait", !.resp = empty]}
               /\ UNCHANGED <<down, handled>>
      BY <1>3, <2>1, <2>4
    <2>5. QED
      BY <2>2, <2>3, <2>4
  <1>7. QED
    BY <1>4, <1>5, <1>6 DEF TaskStep

LEMMA TaskSteps ==
  ASSUME NEW base \in 0 .. Len(sent), Inv(base), NEW t \in tasks, TaskStep(t)
  PROVE  Inv(base)'
  <1> USE DEF Inv
  <1>1. UNCHANGED <<calls, waiters, closed, writerUp, dropped, sent, session, stopping, up, cut>>
    BY DEF TaskStep, clientVars
  <1>2. CallInv' /\ SentInv' /\ FlowInv(base)'
    BY <1>1 DEF CallInv, SentInv, FlowInv
  <1>3. CASE TaskMoves(t)
    <2>1. UNCHANGED <<down, handled>>
      BY <1>3 DEF TaskMoves
    <2>2. DownInv' /\ ResultInv' /\ FrameTooLarge' = FrameTooLarge
      BY <1>1, <2>1 DEF DownInv, ResultInv, Answered, FrameTooLarge
    <2>3. AnswerInv(base)'
      BY <1>1, <2>1 DEF AnswerInv, Answered
    <2>4. session # "gone"
      BY DEF CloseInv
    <2>5. CloseInv'
      BY <1>1, <2>2, <2>4 DEF CloseInv, Reason, Returned
    <2>6. TaskInv(base)'
      <3>1. PICK u \in tasks' :
               /\ tasks' = (tasks \ {t}) \cup {u} /\ u = Task(t.corr, u.phase, t.req, u.resp)
               /\ t.req.type = "Fetch"
               /\ \/ u.phase = "wait" /\ u.resp.type = t.req.type
                  \/ u.phase = "read"
        BY <1>3 DEF TaskMoves
      <3>2. u.corr = t.corr /\ u.req = t.req
        BY <3>1, TaskFields
      <3>3. \A c, r : From(base, c, r) => From(base, c, r)'
        BY <1>1 DEF From
      <3>4. ASSUME NEW v \in tasks'
            PROVE  /\ v = Task(v.corr, v.phase, v.req, v.resp)
                   /\ From(base, v.corr, v.req)'
                   /\ ~Answered(v.corr)'
                   /\ \/ v.phase \in {"reply", "commit", "wait"} /\ v.resp.type = v.req.type
                      \/ v.phase = "read"
                   /\ v.phase \in {"read", "wait"} => v.req.type = "Fetch"
        <4>1. CASE v \in tasks
          BY <2>1, <3>3, <4>1 DEF TaskInv, Answered
        <4>2. CASE v = u
          BY <2>1, <3>1, <3>2, <3>3, <4>2 DEF TaskInv, Answered
        <4>3. QED
          BY <3>1, <4>1, <4>2
      <3>5. \A v, w \in tasks' : v.corr = w.corr => v = w
        BY <3>1, <3>2 DEF TaskInv
      <3>6. QED
        BY <3>4, <3>5 DEF TaskInv
    <2>7. QED
      BY <1>1, <1>2, <2>2, <2>3, <2>5, <2>6
  <1>4. CASE \E resp : resp.type = t.req.type /\ Reply(t, resp)
    <2>1. PICK resp : resp.type = t.req.type /\ Reply(t, resp)
      BY <1>4
    <2>2. PICK i \in 1 .. base : t.corr = Corr(sent[i]) /\ t.req = calls[sent[i]].req
      BY DEF TaskInv, From
    <2>3. ~Answered(t.corr)
      BY DEF TaskInv
    <2>4. tasks' = tasks \ {t} /\ Respond(t.corr, resp)
      BY <2>1 DEF Reply
    <2>5. /\ DownInv' /\ AnswerInv(base)' /\ ResultInv' /\ AnswersKeep
          /\ \A c \in DOMAIN handled : c # t.corr => handled'[c] = handled[c]
      <3> DEFINE corr == t.corr
      <3>1. /\ CallInv /\ SentInv /\ DownInv /\ ResultInv /\ AnswerInv(base)
            /\ resp.type = calls[sent[i]].req.type
            /\ corr = Corr(sent[i]) /\ ~Answered(corr) /\ Respond(corr, resp)
        BY <2>1, <2>2, <2>3, <2>4
      <3> HIDE DEF Inv, corr
      <3>2. /\ DownInv' /\ AnswerInv(base)' /\ ResultInv' /\ AnswersKeep
            /\ \A c \in DOMAIN handled : c # corr => handled'[c] = handled[c]
        BY <1>1, <3>1, Responds
      <3>3. QED
        BY <3>2 DEF corr
    <2>6. TaskInv(base)'
      <3>1. \A u \in tasks : u.corr \in DOMAIN handled
        BY TaskIds
      <3>2. tasks' \subseteq tasks /\ \A u \in tasks' : u.corr # t.corr
        BY <2>4 DEF TaskInv
      <3>3. QED
        BY <1>1, <2>5, <3>1, <3>2, TasksAfterAnswer
    <2>7. Reason => Reason'
      <3>1. CallsKeep /\ SentKeeps
        BY <1>1 DEF CallsKeep, SentKeeps, CallInv, SentInv, IsQueue
      <3>2. QED
        BY <1>1, <2>5, <3>1, FrameTooLargeStays DEF Reason
    <2>8. CloseInv'
      BY <1>1, <2>4, <2>7 DEF CloseInv, Returned
    <2>9. QED
      BY <1>1, <1>2, <2>5, <2>6, <2>8
  <1>5. QED
    BY <1>3, <1>4, TaskEffect

------------------------------------------------------------------------------
(* The theorems *)

LEMMA Initially ==
  ASSUME Init
  PROVE  Inv(0)
  <1>0. \A S : <<>> \in Seq(S) /\ Len(<<>>) = 0
    OBVIOUS
  <1>1. CallInv /\ SentInv /\ DownInv /\ FlowInv(0)
    BY CorrIsCall DEF Init, CallInv, SentInv, DownInv, FlowInv, IsQueue
  <1>2. handled = [c \in {Corr(k) : k \in 1 .. MaxCalls} |-> [answer |-> handled[c].answer]]
    BY DEF Init
  <1>3. AnswerInv(0) /\ TaskInv(0)
    <2>1. \A c \in DOMAIN handled : ~Answered(c)
      BY DEF Init, Answered
    <2>2. QED
      BY <1>2, <2>1 DEF Init, AnswerInv, TaskInv
  <1>4. ResultInv /\ CloseInv /\ 0 \in 0 .. Len(sent)
    <2>1. Len(calls) = 0 /\ Len(sent) = 0
      BY <1>0 DEF Init
    <2>2. 1 .. Len(calls) = {}
      BY <2>1
    <2>3. /\ closed = FALSE /\ writerUp = TRUE /\ session = "loop" /\ dropped = FALSE
          /\ tasks = {} /\ 0 \in 0 .. Len(sent)
      BY <2>1 DEF Init
    <2>4. CloseInv
      BY <2>2, <2>3 DEF CloseInv
    <2>5. QED
      BY <2>2, <2>3, <2>4 DEF ResultInv
  <1>5. QED
    BY <1>1, <1>3, <1>4 DEF Inv

\* What the steps of the client and of the network, and the broker's that take no
\* frame and answer nothing, have in common.
Quiet == UNCHANGED <<tasks, handled, topics>> /\ (session' = "loop" => session = "loop")

LEMMA QuietKeepsInv ==
  ASSUME NEW base \in 0 .. Len(sent), Inv(base), CodecInverts,
         \/ ClientStep \/ LoopEnds \/ SessionEnds \/ Shutdown \/ Cut \/ UNCHANGED vars
  PROVE  Inv(base)' /\ CallsKeep /\ SentKeeps /\ Quiet
  <1>1. CASE ClientStep
    <2>1. CASE Len(calls) < MaxCalls /\ \E req \in Requests[Len(calls) + 1] :
                  CallStart(req) \/ SendOnly(req)
      BY <2>1, CallStarts, OnlySends DEF CallStart, SendOnly, brokerVars, Quiet
    <2>2. CASE \E k \in DOMAIN calls : CallSend(k)
      <3>1. DOMAIN calls = 1 .. Len(calls)
        BY QueueIsSeq DEF Inv, CallInv
      <3>2. QED
        BY <2>2, <3>1, CallSends DEF CallSend, brokerVars, Quiet
    <2>3. CASE ReceiveResponse
      BY <2>3, ResponseArrives DEF ReceiveResponse, brokerVars, Quiet
    <2>4. CASE ReadEnds
      BY <2>4, ReaderReachesTheEnd DEF ReadEnds, brokerVars, Quiet
    <2>5. CASE WriterFails \/ DropConnection
      <3>1. Inv(base)'
        BY <2>5, WriterEnds, ConnectionDrops
      <3>2. CallsKeep /\ SentKeeps /\ Quiet
        BY <2>5, SameKeeps DEF WriterFails, DropConnection, brokerVars, Quiet, Inv
      <3>3. QED
        BY <3>1, <3>2
    <2>6. QED
      BY <1>1, <2>1, <2>2, <2>3, <2>4, <2>5 DEF ClientStep
  <1>2. CASE LoopEnds \/ SessionEnds \/ Shutdown
    <2>1. Inv(base)'
      BY <1>2, LoopStops, SessionStops, BrokerStops
    <2>2. CallsKeep /\ SentKeeps /\ Quiet
      BY <1>2, SameKeeps DEF LoopEnds, SessionEnds, Shutdown, clientVars, Quiet, Inv
    <2>3. QED
      BY <2>1, <2>2
  <1>3. CASE Cut
    <2>1. CallsKeep /\ SentKeeps /\ Quiet
      BY <1>3, SameKeeps DEF Cut, clientVars, brokerVars, Quiet, Inv
    <2>2. QED
      BY <1>3, <2>1, NetworkCuts
  <1>4. CASE UNCHANGED vars
    <2>1. UNCHANGED <<calls, waiters, closed, writerUp, dropped, sent, session, stopping,
                      tasks, handled, up, down, cut, topics>>
      BY <1>4 DEF vars, clientVars, brokerVars
    <2>2. CloseInv'
      BY <2>1, QuietStep DEF Inv, CloseInv, Reason, Returned
    <2>3. CallsKeep /\ SentKeeps /\ Quiet
      BY <2>1, SameKeeps DEF Inv, Quiet
    <2>4. QED
      BY <2>1, <2>2, <2>3, QuietStep DEF Inv
  <1>5. QED
    BY <1>1, <1>2, <1>3, <1>4

LEMMA StepKinds ==
  ASSUME [Next]_vars
  PROVE  \/ ServeFrame
         \/ \E t \in tasks : TaskStep(t)
         \/ ClientStep \/ LoopEnds \/ SessionEnds \/ Shutdown \/ Cut \/ UNCHANGED vars
  BY DEF Next, BrokerStep

\* With a codec that gives back what a frame was made of, a broker's tasks and answers
\* and a client's waiters and results belong to each other in every reachable state.
THEOREM Invariance == Spec /\ []CodecInverts => []IndInv
  <1>1. Init => IndInv
    BY Initially DEF IndInv, Inv
  <1>2. IndInv /\ CodecInverts /\ [Next]_vars => IndInv'
    <2>1. SUFFICES ASSUME IndInv, CodecInverts, [Next]_vars
                   PROVE  IndInv'
      OBVIOUS
    <2>2. PICK base \in 0 .. Len(sent) : Inv(base)
      BY <2>1 DEF IndInv
    <2>3. Inv(base)' \/ Inv(base + 1)'
      BY <2>1, <2>2, StepKinds, QuietKeepsInv, FrameServed, TaskSteps
    <2>4. QED
      BY <2>3 DEF IndInv, Inv
  <1>3. QED
    BY <1>1, <1>2, PTL DEF Spec

\* A waiter is of a call that has not returned, no request has two tasks, and a closed
\* session has none: the bookkeeping of call_start, the reader task and serve_connection.
THEOREM TypeCorrect == Spec /\ []CodecInverts => []TypeOK
  <1>1. IndInv => TypeOK
    <2>1. SUFFICES ASSUME IndInv PROVE TypeOK
      OBVIOUS
    <2>2. PICK base \in 0 .. Len(sent) : Inv(base)
      BY <2>1 DEF IndInv
    <2>3. DOMAIN calls = 1 .. Len(calls) /\ DOMAIN sent = 1 .. Len(sent)
      BY <2>2, QueueIsSeq DEF Inv, CallInv, SentInv
    <2>4. \A t, u \in tasks : t.phase \in TaskPhases /\ (t.corr = u.corr => t = u)
      BY <2>2 DEF Inv, TaskInv, TaskPhases
    <2>5. QED
      BY <2>2, <2>3, <2>4 DEF TypeOK, Inv, CallInv, SentInv, CloseInv
  <1>2. QED
    BY <1>1, Invariance, PTL

\* Whatever is answered out of order, lost or cut off: what a caller of Connection gets
\* is the broker's answer to that caller's request.
THEOREM AnswersMatchCalls == Spec /\ []CodecInverts => []AnswersReachTheirCallers
  <1>1. IndInv => AnswersReachTheirCallers
    <2>1. SUFFICES ASSUME IndInv, NEW k \in DOMAIN calls
                   PROVE  /\ Outcome(k) # "UnexpectedResponse"
                          /\ Outcome(k) \in {"Ok", "Broker"} =>
                                handled[Corr(k)].answer = calls[k].result
      BY DEF AnswersReachTheirCallers
    <2>2. PICK base \in 0 .. Len(sent) : Inv(base)
      BY <2>1 DEF IndInv
    <2>3. k \in 1 .. Len(calls)
      BY <2>1, <2>2, QueueIsSeq DEF Inv, CallInv
    <2>4. CASE calls[k].result \in Specials
      BY <2>4 DEF Outcome, Specials, Pending, Closed, Unanswered
    <2>5. CASE calls[k].result \notin Specials
      <3>1. Answered(Corr(k)) /\ calls[k].result = handled[Corr(k)].answer
        BY <2>2, <2>3, <2>5 DEF Inv, ResultInv
      <3>2. Corr(k) \in DOMAIN handled
        BY <2>2, <2>3, CorrIsCall DEF Inv, CallInv, IsQueue, AnswerInv
      <3>3. handled[Corr(k)].answer.type = calls[k].req.type
        BY <2>2, <2>3, <3>1, <3>2, AnswerTypes DEF Inv
      <3>4. QED
        BY <2>5, <3>1, <3>3 DEF Outcome, Specials
    <2>6. QED
      BY <2>4, <2>5
  <1>2. QED
    BY <1>1, Invariance, PTL

\* No call is told that the connection is closed by the connection's own doing: the
\* network, a broker that stops, or a frame over the limit is behind it.
THEOREM ClosedForCause == Spec /\ []CodecInverts => []ClosedForAReason
  <1>1. IndInv => ClosedForAReason
    <2>1. SUFFICES ASSUME IndInv, NEW k \in DOMAIN calls, calls[k].result = Closed
                   PROVE  cut \/ stopping \/ FrameTooLarge
      BY DEF ClosedForAReason
    <2>2. PICK base \in 0 .. Len(sent) : Inv(base)
      BY <2>1 DEF IndInv
    <2>3. k \in 1 .. Len(calls)
      BY <2>1, <2>2, QueueIsSeq DEF Inv, CallInv
    <2>4. QED
      BY <2>1, <2>2, <2>3 DEF Inv, CloseInv, Reason
  <1>2. QED
    BY <1>1, Invariance, PTL

------------------------------------------------------------------------------
(* What was sent to a partition, call by call *)

\* U[i] is what the first i calls sent append to partition p of the topic.
Sums(U, n, topic, p) ==
    /\ U[0] = <<>>
    /\ \A i \in 1 .. n : U[i] = U[i - 1] \o BatchFor(sent[i], topic, p)

\* The thread takes a prefix of a batch.
LEMMA AcceptedIsPrefix ==
  ASSUME NEW records \in Seq(Records)
  PROVE  Accepted(records) \in Seq(Records)
  <1> DEFINE bad == {i \in DOMAIN records : Len(records[i].value) > MaxRecordBytes}
             first == CHOOSE i \in bad : \A j \in bad : i <= j
  <1>1. CASE bad = {}
    BY <1>1 DEF Accepted
  <1>2. CASE bad # {}
    <2>1. bad \in SUBSET Nat
      OBVIOUS
    <2>2. first \in bad
      <3> HIDE DEF bad
      <3>1. \E i \in bad : \A j \in bad : i <= j
        BY <1>2, <2>1, LeastNatural
      <3>2. QED
        BY <3>1
    <2>3. first \in 1 .. Len(records)
      BY <2>2
    <2>4. Accepted(records) = SubSeq(records, 1, first - 1)
      BY <1>2 DEF Accepted
    <2> HIDE DEF first
    <2>5. SubSeq(records, 1, first - 1) \in Seq(Records)
      BY <2>3
    <2>6. QED
      BY <2>4, <2>5
  <1>3. QED
    BY <1>1, <1>2

LEMMA BatchIsSeq ==
  ASSUME CallInv, NEW k \in 1 .. Len(calls), NEW topic, NEW p
  PROVE  BatchFor(k, topic, p) \in Seq(Records)
  <1> DEFINE req == calls[k].req
  <1>1. req \in Requests[k] /\ k \in 1 .. MaxCalls
    BY CorrIsCall DEF CallInv, IsQueue
  <1>2. req.type = "Produce" => req.records \in Seq(Records)
    BY <1>1, ConnectionAssumption DEF MaxCalls
  <1>3. CASE req.type = "Produce"
    <2>1. Accepted(req.records) \in Seq(Records)
      BY <1>2, <1>3, AcceptedIsPrefix
    <2>2. QED
      BY <2>1 DEF BatchFor
  <1>4. CASE req.type # "Produce"
    BY <1>4 DEF BatchFor
  <1>5. QED
    BY <1>3, <1>4

LEMMA SumsExist ==
  ASSUME CallInv, SentInv, NEW topic, NEW p
  PROVE  \E U \in [0 .. Len(sent) -> Seq(Records)] : Sums(U, Len(sent), topic, p)
  <1> DEFINE T == {n \in Nat : n <= Len(sent) =>
                      \E U \in [0 .. n -> Seq(Records)] : Sums(U, n, topic, p)}
  <1>0. Len(sent) \in Nat
    BY DEF SentInv, IsQueue
  <1>1. 0 \in T
    <2> DEFINE U == [i \in 0 .. 0 |-> <<>>]
    <2>1. U \in [0 .. 0 -> Seq(Records)] /\ Sums(U, 0, topic, p)
      BY DEF Sums
    <2>2. QED
      BY <2>1
  <1>2. \A n \in Nat : n \in T => n + 1 \in T
    <2>1. SUFFICES ASSUME NEW n \in Nat, n \in T, n + 1 <= Len(sent)
                   PROVE  \E U \in [0 .. n + 1 -> Seq(Records)] : Sums(U, n + 1, topic, p)
      OBVIOUS
    <2>2. PICK U \in [0 .. n -> Seq(Records)] : Sums(U, n, topic, p)
      BY <1>0, <2>1
    <2> DEFINE b == BatchFor(sent[n + 1], topic, p)
               V == [i \in 0 .. n + 1 |-> IF i <= n THEN U[i] ELSE U[n] \o b]
    <2>3. b \in Seq(Records)
      BY <1>0, <2>1, BatchIsSeq DEF SentInv
    <2> HIDE DEF b
    <2>4. V \in [0 .. n + 1 -> Seq(Records)]
      BY <2>2, <2>3
    <2>5. \A i \in 0 .. n : V[i] = U[i]
      OBVIOUS
    <2>6. V[n + 1] = V[n] \o b
      OBVIOUS
    <2> HIDE DEF V
    <2>7. ASSUME NEW i \in 1 .. n + 1
          PROVE  V[i] = V[i - 1] \o BatchFor(sent[i], topic, p)
      <3>1. CASE i = n + 1
        <4>1. i - 1 = n
          BY <3>1
        <4>2. QED
          BY <2>6, <3>1, <4>1 DEF b
      <3>2. CASE i \in 1 .. n
        <4>1. U[i] = U[i - 1] \o BatchFor(sent[i], topic, p)
          BY <2>2, <3>2 DEF Sums
        <4>2. V[i] = U[i] /\ V[i - 1] = U[i - 1]
          BY <2>5, <3>2
        <4>3. QED
          BY <4>1, <4>2
      <3>3. i \in 1 .. n \/ i = n + 1
        BY <2>7
      <3>4. QED
        BY <3>1, <3>2, <3>3, Zenon
    <2>8. V[0] = <<>>
      BY <2>2, <2>5 DEF Sums
    <2>9. Sums(V, n + 1, topic, p)
      BY <2>7, <2>8 DEF Sums
    <2>10. QED
      BY <2>4, <2>9
  <1>3. \A n \in Nat : n \in T
    <2> HIDE DEF T
    <2>1. QED
      BY <1>1, <1>2, SetInduction
  <1>4. QED
    BY <1>0, <1>3

LEMMA SumsAgree ==
  ASSUME NEW n \in Nat, NEW m \in Nat, NEW U, NEW V, NEW topic, NEW p,
         Sums(U, n, topic, p), Sums(V, m, topic, p)
  PROVE  \A k \in Nat : k <= n /\ k <= m => U[k] = V[k]
  <1> DEFINE T == {k \in Nat : k <= n /\ k <= m => U[k] = V[k]}
  <1>1. 0 \in T
    BY DEF Sums
  <1>2. \A k \in Nat : k \in T => k + 1 \in T
    <2>1. SUFFICES ASSUME NEW k \in Nat, k \in T, k + 1 <= n, k + 1 <= m
                   PROVE  U[k + 1] = V[k + 1]
      OBVIOUS
    <2>2. U[k] = V[k]
      BY <2>1
    <2>3. /\ U[k + 1] = U[k + 1 - 1] \o BatchFor(sent[k + 1], topic, p)
          /\ V[k + 1] = V[k + 1 - 1] \o BatchFor(sent[k + 1], topic, p)
      <3> DEFINE j == k + 1
      <3>1. j \in 1 .. n /\ j \in 1 .. m
        BY <2>1
      <3> HIDE DEF j
      <3>2. /\ U[j] = U[j - 1] \o BatchFor(sent[j], topic, p)
            /\ V[j] = V[j - 1] \o BatchFor(sent[j], topic, p)
        BY <3>1, Zenon DEF Sums
      <3>3. QED
        BY <3>2 DEF j
    <2>4. k + 1 - 1 = k
      OBVIOUS
    <2>5. QED
      BY <2>2, <2>3, <2>4
  <1>3. \A k \in Nat : k \in T
    <2> HIDE DEF T
    <2>1. QED
      BY <1>1, <1>2, SetInduction
  <1>4. QED
    BY <1>3

\* SentTo is such a sum: a recursive function is what its equation says once some
\* function satisfies the equation.
LEMMA SentToIsSum ==
  ASSUME CallInv, SentInv, NEW topic, NEW p
  PROVE  \E U \in [0 .. Len(sent) -> Seq(Records)] :
            Sums(U, Len(sent), topic, p) /\ SentTo(topic, p) = U[Len(sent)]
  <1> DEFINE n == Len(sent)
             Eq(U) == U = [i \in 0 .. n |-> IF i = 0 THEN <<>>
                                          ELSE U[i - 1] \o BatchFor(sent[i], topic, p)]
             C == CHOOSE U : Eq(U)
  <1>0. n \in Nat
    BY DEF SentInv, IsQueue
  <1>1. PICK U \in [0 .. n -> Seq(Records)] : Sums(U, n, topic, p)
    BY SumsExist
  <1>2. Eq(U)
    <2>1. ASSUME NEW i \in 0 .. n
          PROVE  U[i] = IF i = 0 THEN <<>> ELSE U[i - 1] \o BatchFor(sent[i], topic, p)
      <3>1. CASE i = 0
        BY <1>1, <3>1 DEF Sums
      <3>2. CASE i # 0
        <4>1. i \in 1 .. n
          BY <1>0, <3>2
        <4>2. U[i] = U[i - 1] \o BatchFor(sent[i], topic, p)
          BY <1>1, <4>1, Zenon DEF Sums
        <4>3. QED
          BY <3>2, <4>2
      <3>3. QED
        BY <3>1, <3>2
    <2>2. QED
      BY <2>1, Zenon
  <1>3. Eq(C)
    BY <1>2
  <1>4. SentTo(topic, p) = C[n]
    BY DEF SentTo
  <1> HIDE DEF C
  <1>5. Sums(C, n, topic, p)
    <2>1. \A i \in 0 .. n :
             C[i] = IF i = 0 THEN <<>> ELSE C[i - 1] \o BatchFor(sent[i], topic, p)
      BY <1>3, Zenon
    <2>2. 0 \in 0 .. n /\ \A i \in 1 .. n : i \in 0 .. n /\ i # 0
      BY <1>0
    <2>3. C[0] = <<>>
      BY <2>1, <2>2
    <2>4. \A i \in 1 .. n : C[i] = C[i - 1] \o BatchFor(sent[i], topic, p)
      BY <2>1, <2>2, Zenon
    <2>5. QED
      BY <2>3, <2>4, Zenon DEF Sums
  <1>6. U[n] = C[n]
    BY <1>0, <1>1, <1>5, SumsAgree
  <1>7. QED
    BY <1>1, <1>4, <1>6

Prefix(s, t) == Len(s) <= Len(t) /\ \A i \in 1 .. Len(s) : t[i] = s[i]

LEMMA SumsGrow ==
  ASSUME CallInv, SentInv, NEW U \in [0 .. Len(sent) -> Seq(Records)], NEW topic, NEW p,
         Sums(U, Len(sent), topic, p), NEW k \in 0 .. Len(sent)
  PROVE  Prefix(U[k], U[Len(sent)])
  <1> DEFINE n == Len(sent)
             T == {d \in Nat : k + d <= n => Prefix(U[k], U[k + d])}
  <1>0. n \in Nat
    BY DEF SentInv, IsQueue
  <1>1. 0 \in T
    <2>1. U[k] \in Seq(Records) /\ k + 0 = k
      BY <1>0
    <2>2. QED
      BY <2>1 DEF Prefix
  <1>2. \A d \in Nat : d \in T => d + 1 \in T
    <2>1. SUFFICES ASSUME NEW d \in Nat, d \in T, k + (d + 1) <= n
                   PROVE  Prefix(U[k], U[k + (d + 1)])
      OBVIOUS
    <2> DEFINE j == k + d
               b == BatchFor(sent[j + 1], topic, p)
    <2>2. j \in 0 .. n /\ j + 1 \in 1 .. n /\ k + (d + 1) = j + 1 /\ j + 1 - 1 = j
      BY <1>0, <2>1
    <2>3. Prefix(U[k], U[j])
      BY <2>1, <2>2
    <2>4. b \in Seq(Records)
      BY <2>2, BatchIsSeq DEF SentInv
    <2>5. U[j + 1] = U[j] \o b
      <3> DEFINE m == j + 1
      <3>1. m \in 1 .. n /\ m - 1 = j
        BY <2>2
      <3> HIDE DEF m
      <3>2. U[m] = U[m - 1] \o BatchFor(sent[m], topic, p)
        BY <3>1, Zenon DEF Sums
      <3> HIDE DEF j
      <3>3. U[m] = U[j] \o BatchFor(sent[m], topic, p)
        BY <3>1, <3>2
      <3>4. QED
        BY <3>3 DEF m
    <2> HIDE DEF b, j
    <2>6. U[j] \in Seq(Records) /\ U[k] \in Seq(Records)
      BY <1>0, <2>2
    <2>7. Prefix(U[k], U[j] \o b)
      BY <2>3, <2>4, <2>6 DEF Prefix
    <2>8. QED
      BY <2>2, <2>5, <2>7
  <1>3. \A d \in Nat : d \in T
    <2> HIDE DEF T
    <2>1. QED
      BY <1>1, <1>2, SetInduction
  <1>4. k + (n - k) = n /\ n - k \in Nat
    BY <1>0
  <1>5. n - k \in T
    BY <1>3, <1>4
  <1>6. QED
    BY <1>4, <1>5

------------------------------------------------------------------------------
(* Logs and what the answers say of them *)

\* Logs are sequences of records, and no partition disappears.
LogTyped ==
    /\ \A t \in DOMAIN topics : topics[t] \in Seq(Seq(Records))
    /\ \A t \in DOMAIN InitTopics : t \in DOMAIN topics /\ Len(topics[t]) = InitTopics[t]

\* A partition found at the start holds what the first n calls sent append to it.
SumInv(n) ==
    \A t \in DOMAIN InitTopics : \A p \in 0 .. InitTopics[t] - 1 :
        \E U \in [0 .. n -> Seq(Records)] : Sums(U, n, t, p) /\ LogOf(t, p) = U[n]

\* Answers, given or held by a task, are true of partitions that exist.
Justified(req, resp) ==
    req.type \in {"Produce", "Fetch"} /\ resp.error = "None" =>
        /\ Partition(req.topic, req.partition)
        /\ req.type = "Produce" => resp.base_offset \in Nat
        /\ req.type = "Fetch" => IsQueue(resp.records)
        /\ TrueAnswer(req, resp)

TaskTrue(t) ==
    /\ t.phase = "read" => Partition(t.req.topic, t.req.partition)
    /\ t.phase # "read" => Justified(t.req, t.resp)
    /\ t.phase = "wait" => Partition(t.req.topic, t.req.partition)

TruthInv(base) ==
    /\ \A t \in tasks : TaskTrue(t)
    /\ \A i \in 1 .. base :
          \A req \in {calls[sent[i]].req}, resp \in {handled[Corr(sent[i])].answer} :
             resp # Pending => Justified(req, resp)

\* The frames taken have all been dispatched, but for one that ended the session's loop.
LogInv(base) ==
    /\ LogTyped /\ TruthInv(base)
    /\ \E n \in 0 .. base : (session = "loop" => n = base) /\ SumInv(n)

\* What a request that is called looks like, as far as logs are concerned.
Shaped(req) ==
    /\ req.type = "CreateTopic" => req.partitions \in Nat
    /\ req.type \in {"Produce", "Fetch"} => req.partition \in Nat
    /\ req.type = "Produce" => req.records \in Seq(Records)
    /\ req.type = "Fetch" => req.offset \in Nat

LEMMA RequestsAreShaped ==
  ASSUME NEW k \in 1 .. MaxCalls, NEW req \in Requests[k]
  PROVE  Shaped(req)
  BY ConnectionAssumption DEF Shaped, MaxCalls

\* Logs only grow.
Grown ==
    \A t \in DOMAIN topics :
        /\ t \in DOMAIN topics' /\ Len(topics'[t]) = Len(topics[t])
        /\ \A q \in 1 .. Len(topics[t]) : Prefix(topics[t][q], topics'[t][q])

LEMMA SameIsGrown ==
  ASSUME LogTyped, UNCHANGED topics
  PROVE  LogTyped' /\ Grown
  <1>1. LogTyped'
    BY DEF LogTyped
  <1>2. ASSUME NEW t \in DOMAIN topics, NEW q \in 1 .. Len(topics[t])
        PROVE  Prefix(topics[t][q], topics[t][q])
    <2>1. topics[t] \in Seq(Seq(Records))
      BY DEF LogTyped
    <2>2. topics[t][q] \in Seq(Records)
      BY <2>1
    <2>3. QED
      BY <2>2 DEF Prefix
  <1>3. QED
    BY <1>1, <1>2 DEF Grown

LEMMA PartitionStays ==
  ASSUME LogTyped, LogTyped', Grown, NEW topic, NEW p \in Nat, Partition(topic, p)
  PROVE  /\ Partition(topic, p)' /\ Prefix(LogOf(topic, p), LogOf(topic, p)')
         /\ LogOf(topic, p) \in Seq(Records) /\ LogOf(topic, p)' \in Seq(Records)
  <1>1. topic \in DOMAIN topics /\ topics[topic] \in Seq(Seq(Records)) /\ p < Len(topics[topic])
    BY DEF Partition, LogTyped
  <1>2. p + 1 \in 1 .. Len(topics[topic])
    BY <1>1
  <1>3. topic \in DOMAIN topics' /\ Len(topics'[topic]) = Len(topics[topic])
    BY <1>1 DEF Grown
  <1>4. topics'[topic] \in Seq(Seq(Records))
    BY <1>3 DEF LogTyped
  <1>5. topics[topic][p + 1] \in Seq(Records) /\ topics'[topic][p + 1] \in Seq(Records)
    BY <1>1, <1>2, <1>3, <1>4
  <1>6. Prefix(topics[topic][p + 1], topics'[topic][p + 1])
    BY <1>1, <1>2 DEF Grown
  <1>7. QED
    BY <1>1, <1>3, <1>5, <1>6 DEF LogOf, Partition

\* What is true of a log stays true when it grows.
LEMMA JustifiedStays ==
  ASSUME LogTyped, LogTyped', Grown, NEW req, Shaped(req), NEW resp, Justified(req, resp)
  PROVE  Justified(req, resp)'
  <1>1. SUFFICES ASSUME req.type \in {"Produce", "Fetch"}, resp.error = "None"
                 PROVE  /\ Partition(req.topic, req.partition)'
                        /\ TrueAnswer(req, resp)'
    BY DEF Justified
  <1> DEFINE log == LogOf(req.topic, req.partition)
             log2 == LogOf(req.topic, req.partition)'
  <1>2. /\ Partition(req.topic, req.partition) /\ TrueAnswer(req, resp)
        /\ req.type = "Produce" => resp.base_offset \in Nat
        /\ req.type = "Fetch" => IsQueue(resp.records)
    BY <1>1 DEF Justified
  <1>3. req.partition \in Nat
    BY <1>1 DEF Shaped
  <1>4. /\ Partition(req.topic, req.partition)' /\ Prefix(log, log2)
        /\ log \in Seq(Records) /\ log2 \in Seq(Records)
    BY <1>2, <1>3, PartitionStays
  <1>5. Len(log) \in Nat /\ Len(log2) \in Nat /\ Len(log) <= Len(log2)
        /\ \A i \in 1 .. Len(log) : log2[i] = log[i]
    BY <1>4 DEF Prefix
  <1> HIDE DEF log, log2
  <1>6. CASE req.type = "Produce"
    <2> DEFINE n == Len(req.records)
               b == resp.base_offset
    <2>1. n \in Nat /\ b \in Nat /\ DOMAIN req.records = 1 .. n
      BY <1>2, <1>6 DEF Shaped
    <2>2. b + n <= Len(log) /\ \A i \in 1 .. n : log[b + i] = req.records[i]
      BY <1>2, <1>6, <2>1 DEF TrueAnswer, AppendedThere, log
    <2>3. ASSUME NEW i \in 1 .. n PROVE log2[b + i] = req.records[i]
      <3> HIDE DEF n, b
      <3>1. b + i \in 1 .. Len(log)
        BY <1>5, <2>1, <2>2
      <3>2. QED
        BY <1>5, <2>2, <3>1
    <2>4. b + n <= Len(log2)
      BY <1>5, <2>1, <2>2
    <2>5. AppendedThere(req, resp)'
      BY <2>1, <2>3, <2>4 DEF AppendedThere, log2
    <2>6. QED
      BY <1>4, <1>6, <2>5 DEF TrueAnswer
  <1>7. CASE req.type = "Fetch"
    <2> DEFINE n == Len(resp.records)
               b == req.offset
    <2>1. n \in Nat /\ b \in Nat /\ DOMAIN resp.records = 1 .. n
      BY <1>2, <1>7, QueueIsSeq DEF Shaped, IsQueue
    <2>2. b + n <= Len(log)
          /\ \A i \in 1 .. n : /\ resp.records[i].offset = b + i - 1
                               /\ resp.records[i].key = log[b + i].key
                               /\ resp.records[i].value = log[b + i].value
      BY <1>2, <1>7, <2>1 DEF TrueAnswer, FetchedThere, log
    <2>3. ASSUME NEW i \in 1 .. n PROVE log2[b + i] = log[b + i]
      <3> HIDE DEF n, b
      <3>1. b + i \in 1 .. Len(log)
        BY <1>5, <2>1, <2>2
      <3>2. QED
        BY <1>5, <3>1
    <2>4. b + n <= Len(log2)
      BY <1>5, <2>1, <2>2
    <2>5. FetchedThere(req, resp)'
      BY <2>1, <2>2, <2>3, <2>4 DEF FetchedThere, log2
    <2>6. QED
      BY <1>4, <1>7, <2>5 DEF TrueAnswer
  <1>8. QED
    BY <1>1, <1>6, <1>7

\* The logs after a step that leaves them alone, in the form of one that appends.
LEMMA NothingAppended ==
  ASSUME LogTyped, UNCHANGED topics, NEW t \in DOMAIN InitTopics,
         NEW p \in 0 .. InitTopics[t] - 1
  PROVE  LogOf(t, p)' = LogOf(t, p) \o <<>>
  <1>1. /\ t \in DOMAIN topics /\ topics[t] \in Seq(Seq(Records))
        /\ Len(topics[t]) = InitTopics[t] /\ InitTopics[t] \in Nat
    BY ConnectionAssumption DEF LogTyped
  <1>2. p + 1 \in 1 .. Len(topics[t])
    BY <1>1
  <1>3. topics[t][p + 1] \in Seq(Records)
    BY <1>1, <1>2
  <1>4. QED
    BY <1>3 DEF LogOf

\* create_topic adds a topic that is not there.
LEMMA TopicAdded ==
  ASSUME LogTyped, NEW topic, topic \notin DOMAIN topics, NEW n \in Nat,
         topics' = With(topics, topic, [p \in 1 .. n |-> <<>>])
  PROVE  /\ LogTyped' /\ Grown
         /\ \A t \in DOMAIN topics : topics'[t] = topics[t]
  <1>1. /\ DOMAIN topics' = DOMAIN topics \cup {topic}
        /\ \A t \in DOMAIN topics : topics'[t] = topics[t]
        /\ topics'[topic] = [p \in 1 .. n |-> <<>>]
    BY DEF With
  <1>2. [p \in 1 .. n |-> <<>>] \in Seq(Seq(Records))
    <2>1. <<>> \in Seq(Records)
      OBVIOUS
    <2>2. QED
      BY <2>1
  <1>3. LogTyped'
    BY <1>1, <1>2 DEF LogTyped
  <1>4. ASSUME NEW t \in DOMAIN topics, NEW q \in 1 .. Len(topics[t])
        PROVE  Prefix(topics[t][q], topics[t][q])
    <2>1. topics[t] \in Seq(Seq(Records))
      BY DEF LogTyped
    <2>2. topics[t][q] \in Seq(Records)
      BY <2>1
    <2>3. QED
      BY <2>2 DEF Prefix
  <1>5. Grown
    BY <1>1, <1>4 DEF Grown
  <1>6. QED
    BY <1>1, <1>3, <1>5

\* Cmd::Append adds to one partition.
LEMMA LogExtended ==
  ASSUME LogTyped, NEW topic, NEW p \in Nat, Partition(topic, p), NEW b \in Seq(Records),
         topics' = [topics EXCEPT ![topic][p + 1] = topics[topic][p + 1] \o b]
  PROVE  /\ LogTyped' /\ Grown /\ DOMAIN topics' = DOMAIN topics
         /\ LogOf(topic, p)' = LogOf(topic, p) \o b
         /\ \A t \in DOMAIN topics : \A q \in 0 .. Len(topics[t]) - 1 :
               ~(t = topic /\ q = p) => LogOf(t, q)' = LogOf(t, q)
  <1> DEFINE ls == topics[topic]
             l == ls[p + 1] \o b
             ls2 == [ls EXCEPT ![p + 1] = l]
  <1>1. topic \in DOMAIN topics /\ ls \in Seq(Seq(Records)) /\ p + 1 \in 1 .. Len(ls)
    BY DEF Partition, LogTyped
  <1>2. ls[p + 1] \in Seq(Records)
    BY <1>1
  <1>3. l \in Seq(Records) /\ Prefix(ls[p + 1], l)
    BY <1>2 DEF Prefix
  <1>4. topics' = [topics EXCEPT ![topic] = ls2]
    OBVIOUS
  <1>5. l = LogOf(topic, p) \o b
    BY DEF LogOf
  <1> HIDE DEF l
  <1>6. /\ ls2 \in Seq(Seq(Records)) /\ Len(ls2) = Len(ls)
        /\ ls2[p + 1] = l /\ \A q \in 1 .. Len(ls) : q # p + 1 => ls2[q] = ls[q]
    BY <1>1, <1>3
  <1>7. \A q \in 1 .. Len(ls) : Prefix(ls[q], ls2[q])
    <2>1. ASSUME NEW q \in 1 .. Len(ls), q # p + 1 PROVE Prefix(ls[q], ls2[q])
      <3>1. ls[q] \in Seq(Records) /\ ls2[q] = ls[q]
        BY <1>1, <1>6, <2>1
      <3> HIDE DEF ls, ls2
      <3>2. QED
        BY <3>1 DEF Prefix
    <2>2. QED
      BY <1>3, <1>6, <2>1
  <1> HIDE DEF ls2
  <1>8. /\ DOMAIN topics' = DOMAIN topics /\ topics'[topic] = ls2
        /\ \A t \in DOMAIN topics : t # topic => topics'[t] = topics[t]
    BY <1>1, <1>4
  <1>9. LogTyped'
    BY <1>6, <1>8 DEF LogTyped
  <1>10. ASSUME NEW t \in DOMAIN topics
         PROVE  /\ t \in DOMAIN topics' /\ Len(topics'[t]) = Len(topics[t])
                /\ \A q \in 1 .. Len(topics[t]) : Prefix(topics[t][q], topics'[t][q])
    <2>1. CASE t = topic
      BY <1>6, <1>7, <1>8, <2>1
    <2>2. CASE t # topic
      <3>1. topics[t] \in Seq(Seq(Records)) /\ topics'[t] = topics[t]
        BY <1>8, <2>2 DEF LogTyped
      <3>2. \A q \in 1 .. Len(topics[t]) : topics[t][q] \in Seq(Records)
        BY <3>1
      <3>3. \A q \in 1 .. Len(topics[t]) : Prefix(topics[t][q], topics[t][q])
        BY <3>2 DEF Prefix
      <3>4. QED
        BY <1>8, <3>1, <3>3
    <2>3. QED
      BY <2>1, <2>2
  <1>11. Grown
    BY <1>10 DEF Grown
  <1>12. LogOf(topic, p)' = LogOf(topic, p) \o b
    BY <1>5, <1>6, <1>8 DEF LogOf
  <1>13. ASSUME NEW t \in DOMAIN topics, NEW q \in 0 .. Len(topics[t]) - 1, ~(t = topic /\ q = p)
         PROVE  LogOf(t, q)' = LogOf(t, q)
    <2>1. CASE t = topic
      <3>1. q + 1 \in 1 .. Len(ls) /\ q + 1 # p + 1
        BY <1>1, <1>13, <2>1
      <3>2. QED
        BY <1>6, <1>8, <2>1, <3>1 DEF LogOf
    <2>2. CASE t # topic
      BY <1>8, <2>2 DEF LogOf
    <2>3. QED
      BY <2>1, <2>2
  <1>14. QED
    BY <1>8, <1>9, <1>11, <1>12, <1>13

\* Dispatching a request appends to each partition what BatchFor says, and only that.
LEMMA DispatchLogs ==
  ASSUME LogTyped, CallInv, NEW k \in 1 .. Len(calls), NEW corr, Dispatch(calls[k].req, corr)
  PROVE  /\ LogTyped' /\ Grown
         /\ \A t \in DOMAIN InitTopics : \A p \in 0 .. InitTopics[t] - 1 :
               LogOf(t, p)' = LogOf(t, p) \o BatchFor(k, t, p)
  <1> DEFINE req == calls[k].req
  <1>1. Shaped(req)
    <2>1. req \in Requests[k] /\ k \in 1 .. MaxCalls
      BY CorrIsCall DEF CallInv, IsQueue
    <2> HIDE DEF req
    <2>2. QED
      BY <2>1, RequestsAreShaped
  <1>2. \A t \in DOMAIN InitTopics : t \in DOMAIN topics /\ Len(topics[t]) = InitTopics[t]
    BY DEF LogTyped
  <1>3. CASE req.type = "Produce"
    <2>1. DispatchProduce(req, corr)
      BY <1>3 DEF Dispatch
    <2>2. CASE ProduceError(req) # "None"
      <3>1. UNCHANGED topics
        BY <2>1, <2>2 DEF DispatchProduce
      <3>2. ASSUME NEW t \in DOMAIN InitTopics, NEW p \in 0 .. InitTopics[t] - 1
            PROVE  BatchFor(k, t, p) = <<>>
        <4>1. InitTopics[t] \in Nat
          BY ConnectionAssumption
        <4>2. Partition(t, p)
          BY <1>2, <4>1 DEF Partition
        <4>3. QED
          BY <2>2, <4>2 DEF ProduceError, BatchFor
      <3>3. QED
        BY <3>1, <3>2, SameIsGrown, NothingAppended
    <2>3. CASE ProduceError(req) = "None"
      <3> DEFINE b == Accepted(req.records)
      <3>01. PICK topic \in {req.topic} : TRUE
        OBVIOUS
      <3>02. PICK q \in {req.partition} : TRUE
        OBVIOUS
      <3>1. /\ b \in Seq(Records) /\ q \in Nat /\ Partition(topic, q) /\ req.leader_epoch = 0
        BY <3>01, <3>02, <1>1, <1>3, <2>3, AcceptedIsPrefix DEF Shaped, ProduceError
      <3>2. topics' = [topics EXCEPT ![topic][q + 1] = topics[topic][q + 1] \o b]
        BY <3>01, <3>02, <2>1, <2>3 DEF DispatchProduce, AppendBatch
      <3>3. \A t, p : BatchFor(k, t, p) = IF t = topic /\ p = q THEN b ELSE <<>>
        BY <3>01, <3>02, <1>3, <3>1 DEF BatchFor
      <3> HIDE DEF b
      <3>4. /\ LogTyped' /\ Grown
            /\ LogOf(topic, q)' = LogOf(topic, q) \o b
            /\ \A t \in DOMAIN topics : \A p \in 0 .. Len(topics[t]) - 1 :
                  ~(t = topic /\ p = q) => LogOf(t, p)' = LogOf(t, p)
        BY <3>1, <3>2, LogExtended
      <3>5. ASSUME NEW t \in DOMAIN InitTopics, NEW p \in 0 .. InitTopics[t] - 1
            PROVE  LogOf(t, p)' = LogOf(t, p) \o BatchFor(k, t, p)
        <4>1. CASE t = topic /\ p = q
          BY <3>3, <3>4, <4>1
        <4>2. CASE ~(t = topic /\ p = q)
          <5>1. LogOf(t, p)' = LogOf(t, p)
            BY <1>2, <3>4, <4>2
          <5>2. LogOf(t, p) \in Seq(Records)
            <6>1. /\ t \in DOMAIN topics /\ topics[t] \in Seq(Seq(Records))
                  /\ Len(topics[t]) = InitTopics[t] /\ InitTopics[t] \in Nat
              BY ConnectionAssumption DEF LogTyped
            <6>2. p + 1 \in 1 .. Len(topics[t])
              BY <6>1
            <6>3. QED
              BY <6>1, <6>2 DEF LogOf
          <5>3. LogOf(t, p) = LogOf(t, p) \o <<>>
            BY <5>2
          <5>4. BatchFor(k, t, p) = <<>>
            BY <3>3, <4>2
          <5>5. QED
            BY <5>1, <5>3, <5>4
        <4>3. QED
          BY <4>1, <4>2
      <3>6. QED
        BY <3>4, <3>5
    <2>4. QED
      BY <2>2, <2>3
  <1>4. CASE req.type # "Produce"
    <2>1. \A t, p : BatchFor(k, t, p) = <<>>
      BY <1>4 DEF BatchFor
    <2>2. CASE UNCHANGED topics
      BY <2>1, <2>2, SameIsGrown, NothingAppended
    <2>3. CASE req.type = "CreateTopic" /\ CreateError(req) = "None"
      <3> DEFINE topic == req.topic
                 n == req.partitions
      <3>1. topic \notin DOMAIN topics /\ n \in Nat
        BY <1>1, <2>3 DEF CreateError, Shaped
      <3>2. topics' = With(topics, topic, [p \in 1 .. n |-> <<>>])
        BY <2>3 DEF Dispatch, DispatchCreate
      <3> HIDE DEF topic, n
      <3>3. LogTyped' /\ Grown /\ \A t \in DOMAIN topics : topics'[t] = topics[t]
        BY <3>1, <3>2, TopicAdded
      <3>4. ASSUME NEW t \in DOMAIN InitTopics, NEW p \in 0 .. InitTopics[t] - 1
            PROVE  LogOf(t, p)' = LogOf(t, p) \o BatchFor(k, t, p)
        <4>1. /\ t \in DOMAIN topics /\ topics[t] \in Seq(Seq(Records))
              /\ Len(topics[t]) = InitTopics[t] /\ InitTopics[t] \in Nat
          BY ConnectionAssumption DEF LogTyped
        <4>2. p + 1 \in 1 .. Len(topics[t])
          BY <4>1
        <4>3. LogOf(t, p) \in Seq(Records) /\ LogOf(t, p)' = LogOf(t, p)
          BY <3>3, <4>1, <4>2 DEF LogOf
        <4>4. LogOf(t, p) = LogOf(t, p) \o <<>>
          BY <4>3
        <4>5. QED
          BY <2>1, <4>3, <4>4
      <3>5. QED
        BY <3>3, <3>4
    <2>4. UNCHANGED topics \/ (req.type = "CreateTopic" /\ CreateError(req) = "None")
      BY <1>4 DEF Dispatch, DispatchCreate, DispatchMetadata, DispatchFetch, DispatchCommit,
                  DispatchFetchOffset, DispatchOther
    <2>5. QED
      BY <2>2, <2>3, <2>4
  <1>5. QED
    BY <1>3, <1>4

\* An answer that is no produce or fetch, or an error, claims nothing about a log.
LEMMA ClaimsNothing ==
  ASSUME NEW req, NEW resp, req.type \notin {"Produce", "Fetch"} \/ resp.error # "None"
  PROVE  Justified(req, resp) /\ Justified(req, resp)'
  BY DEF Justified

\* The offsets in the answer to a produce are those its batch takes.
LEMMA AppendIsTrue ==
  ASSUME LogTyped, NEW req, Shaped(req), req.type = "Produce", ProduceError(req) = "None",
         AppendBatch(req), NEW answer, answer = AppendAnswer(req)
  PROVE  Justified(req, answer)'
  <1> DEFINE topic == req.topic
             p == req.partition
             b == Accepted(req.records)
             n == Len(req.records)
  <1>0. PICK log \in {LogOf(topic, p)} : TRUE
    OBVIOUS
  <1>1. /\ b \in Seq(Records) /\ p \in Nat /\ Partition(topic, p) /\ req.records \in Seq(Records)
    BY AcceptedIsPrefix DEF Shaped, ProduceError
  <1>2. topics' = [topics EXCEPT ![topic][p + 1] = topics[topic][p + 1] \o b]
    BY DEF AppendBatch
  <1>3. LogTyped' /\ Grown /\ LogOf(topic, p)' = log \o b
    <2> HIDE DEF b
    <2>1. LogTyped' /\ Grown /\ LogOf(topic, p)' = LogOf(topic, p) \o b
      BY <1>1, <1>2, LogExtended
    <2>2. QED
      BY <1>0, <2>1
  <1>4. Partition(topic, p)' /\ log \in Seq(Records)
    BY <1>0, <1>1, <1>3, PartitionStays
  <1>5. CASE b # req.records
    <2>1. answer.error = "Malformed"
      BY <1>5 DEF AppendAnswer, Produced
    <2>2. QED
      BY <2>1, ClaimsNothing
  <1>6. CASE b = req.records
    <2>1. answer.base_offset = Len(log)
      BY <1>0, <1>6 DEF AppendAnswer, Produced
    <2>2. Len(log) \in Nat /\ n \in Nat /\ DOMAIN req.records = 1 .. n
      BY <1>1, <1>4
    <2>3. /\ Len(log \o req.records) = Len(log) + n
          /\ \A i \in 1 .. n : (log \o req.records)[Len(log) + i] = req.records[i]
      BY <1>1, <1>4
    <2>4. LogOf(topic, p)' = log \o req.records
      BY <1>3, <1>6
    <2>5. AppendedThere(req, answer)'
      BY <2>1, <2>2, <2>3, <2>4 DEF AppendedThere
    <2>6. QED
      BY <1>4, <2>1, <2>2, <2>5 DEF Justified, TrueAnswer
  <1>7. QED
    BY <1>5, <1>6

\* What dispatch promises or answers is true when it does.
LEMMA DispatchTruth ==
  ASSUME LogTyped, NEW req, Shaped(req), NEW corr \in DOMAIN handled,
         handled[corr] = [answer |-> handled[corr].answer], ~Answered(corr),
         Dispatch(req, corr),
         NEW answer, answer = handled'[corr].answer
  PROVE  /\ \A u \in tasks' : u \in tasks \/ (u.req = req /\ TaskTrue(u)')
         /\ Answered(corr)' => Justified(req, answer)'
  <1>1. ASSUME UNCHANGED <<tasks, handled>>
        PROVE  /\ \A u \in tasks' : u \in tasks
               /\ ~Answered(corr)'
    BY <1>1 DEF Answered
  <1>2. ASSUME NEW resp, Respond(corr, resp) PROVE answer = resp
    BY <1>2, RespondIsAnswer
  <1>3. ASSUME NEW resp, Respond(corr, resp), UNCHANGED tasks,
               req.type \notin {"Produce", "Fetch"} \/ resp.error # "None"
        PROVE  /\ \A u \in tasks' : u \in tasks
               /\ Justified(req, answer)'
    <2>1. answer = resp
      BY <1>2, <1>3
    <2>2. req.type \notin {"Produce", "Fetch"} \/ answer.error # "None"
      BY <1>3, <2>1
    <2>3. QED
      BY <1>3, <2>2, ClaimsNothing
  <1>4. ASSUME NEW phase, NEW resp, tasks' = tasks \cup {Task(corr, phase, req, resp)},
               UNCHANGED handled,
               phase = "read" => Partition(req.topic, req.partition)',
               phase # "read" => Justified(req, resp)',
               phase # "wait"
        PROVE  /\ \A u \in tasks' : u \in tasks \/ (u.req = req /\ TaskTrue(u)')
               /\ ~Answered(corr)'
    <2> DEFINE t == Task(corr, phase, req, resp)
    <2>1. t.corr = corr /\ t.phase = phase /\ t.req = req /\ t.resp = resp
      BY TaskFields
    <2>2. TaskTrue(t)'
      BY <1>4, <2>1 DEF TaskTrue
    <2>3. ~Answered(corr)'
      BY <1>4 DEF Answered
    <2> HIDE DEF t
    <2>4. tasks' = tasks \cup {t}
      BY <1>4 DEF t
    <2>5. QED
      BY <2>1, <2>2, <2>3, <2>4
  <1>5. CASE req.type = "Produce"
    <2>1. DispatchProduce(req, corr)
      BY <1>5 DEF Dispatch
    <2>2. CASE ProduceError(req) # "None"
      <3>1. Produced(ProduceError(req), 0, 0).error # "None"
        BY <2>2 DEF Produced
      <3>2. \/ UNCHANGED <<tasks, handled>>
            \/ UNCHANGED tasks /\ Respond(corr, Produced(ProduceError(req), 0, 0))
        BY <2>1, <2>2 DEF DispatchProduce
      <3>3. QED
        BY <1>1, <1>3, <3>1, <3>2
    <2>3. CASE ProduceError(req) = "None"
      <3>1. PICK resp \in {AppendAnswer(req)} : TRUE
        OBVIOUS
      <3>2. Justified(req, resp)'
        BY <1>5, <2>1, <2>3, <3>1, AppendIsTrue DEF DispatchProduce
      <3>3. \/ UNCHANGED <<tasks, handled>>
            \/ tasks' = tasks \cup {Task(corr, "reply", req, resp)} /\ UNCHANGED handled
        BY <2>1, <2>3, <3>1 DEF DispatchProduce
      <3>4. QED
        BY <1>1, <1>4, <3>2, <3>3
    <2>4. QED
      BY <2>2, <2>3
  <1>6. CASE req.type = "Fetch"
    <2>1. DispatchFetch(req, corr)
      BY <1>6 DEF Dispatch
    <2>2. CASE Partition(req.topic, req.partition)
      <3>1. /\ tasks' = tasks \cup {Task(corr, "read", req, Pending)}
            /\ UNCHANGED <<handled, topics>>
        BY <2>1, <2>2 DEF DispatchFetch
      <3>2. Partition(req.topic, req.partition)'
        BY <2>2, <3>1 DEF Partition
      <3>3. QED
        BY <1>4, <3>1, <3>2
    <2>3. CASE ~Partition(req.topic, req.partition)
      <3>1. UNCHANGED tasks /\ Respond(corr, Fetched("UnknownTopicOrPartition", 0, <<>>))
        BY <2>1, <2>3 DEF DispatchFetch
      <3>2. Fetched("UnknownTopicOrPartition", 0, <<>>).error # "None"
        BY DEF Fetched
      <3>3. QED
        BY <1>3, <3>1, <3>2
    <2>4. QED
      BY <2>2, <2>3
  <1>7. CASE req.type = "CommitOffset"
    <2>1. DispatchCommit(req, corr)
      BY <1>7 DEF Dispatch
    <2>2. CASE \E resp \in PeerAnswers(req) : Respond(corr, resp) /\ UNCHANGED tasks
      BY <1>3, <1>7, <2>2
    <2>3. CASE /\ tasks' = tasks \cup {Task(corr, "commit", req,
                                            [type |-> "CommitOffset", error |-> "None"])}
               /\ UNCHANGED handled
      <3>1. PICK resp \in {[type |-> "CommitOffset", error |-> "None"]} : TRUE
        OBVIOUS
      <3>2. Justified(req, resp)'
        BY <1>7, ClaimsNothing
      <3>3. tasks' = tasks \cup {Task(corr, "commit", req, resp)}
        BY <2>3, <3>1
      <3>4. QED
        BY <1>4, <2>3, <3>2, <3>3
    <2>4. QED
      BY <2>1, <2>2, <2>3 DEF DispatchCommit
  <1>8. CASE req.type \notin {"Produce", "Fetch", "CommitOffset"}
    <2>1. UNCHANGED tasks /\ \E resp : Respond(corr, resp)
      BY <1>8 DEF Dispatch, DispatchCreate, DispatchMetadata, DispatchFetchOffset, DispatchOther
    <2>2. QED
      BY <1>3, <1>8, <2>1
  <1>9. QED
    BY <1>5, <1>6, <1>7, <1>8

------------------------------------------------------------------------------
(* The steps once more: logs and answers *)

LEMMA SumsStay ==
  ASSUME NEW n \in Nat,
         \A i \in 1 .. n : sent'[i] = sent[i] /\ calls'[sent[i]].req = calls[sent[i]].req,
         NEW topic, NEW p, NEW U, Sums(U, n, topic, p)
  PROVE  Sums(U, n, topic, p)'
  <1>1. ASSUME NEW i \in 1 .. n
        PROVE  U[i] = U[i - 1] \o BatchFor(sent[i], topic, p)'
    <2>1. U[i] = U[i - 1] \o BatchFor(sent[i], topic, p)
      BY Zenon DEF Sums
    <2>2. BatchFor(sent[i], topic, p)' = BatchFor(sent[i], topic, p)
      BY DEF BatchFor
    <2>3. QED
      BY <2>1, <2>2, Zenon
  <1>2. QED
    BY <1>1, Zenon DEF Sums

LEMMA QuietKeepsLogs ==
  ASSUME NEW base \in 0 .. Len(sent), Inv(base), LogInv(base), CallsKeep, SentKeeps, Quiet
  PROVE  LogInv(base)'
  <1>1. \A i \in 1 .. base : sent'[i] = sent[i] /\ calls'[sent[i]].req = calls[sent[i]].req
    BY DEF Inv, SentInv, IsQueue, CallsKeep, SentKeeps
  <1>2. LogTyped'
    BY DEF LogInv, LogTyped, Quiet
  <1>3. \E n \in 0 .. base : (session' = "loop" => n = base) /\ SumInv(n)'
    <2>1. PICK n \in 0 .. base : (session = "loop" => n = base) /\ SumInv(n)
      BY DEF LogInv
    <2>2. ASSUME NEW t, NEW p, NEW U, Sums(U, n, t, p)
          PROVE  Sums(U, n, t, p)'
      <3>1. \A i \in 1 .. n : i \in 1 .. base
        BY <2>1
      <3>2. QED
        BY <1>1, <2>2, <3>1, SumsStay
    <2>3. SumInv(n)'
      BY <2>1, <2>2 DEF SumInv, Quiet, LogOf
    <2>4. QED
      BY <2>1, <2>3 DEF Quiet
  <1>4. TruthInv(base)'
    <2>1. ASSUME NEW r, NEW a, Justified(r, a) PROVE Justified(r, a)'
      BY <2>1 DEF Justified, Partition, TrueAnswer, AppendedThere, FetchedThere, LogOf, Quiet
    <2>2. \A t \in tasks' : TaskTrue(t)'
      BY <2>1 DEF LogInv, TruthInv, TaskTrue, Partition, Quiet
    <2>3. ASSUME NEW i \in 1 .. base, NEW req \in {calls'[sent'[i]].req},
                 NEW resp \in {handled'[Corr(sent'[i])].answer}, resp # Pending
          PROVE  Justified(req, resp)'
      <3>1. req = calls[sent[i]].req /\ resp = handled[Corr(sent[i])].answer
        BY <1>1 DEF Quiet
      <3>2. Justified(req, resp)
        BY <2>3, <3>1 DEF LogInv, TruthInv
      <3>3. QED
        BY <2>1, <3>2
    <2>4. QED
      BY <2>2, <2>3 DEF TruthInv
  <1>5. QED
    BY <1>2, <1>3, <1>4 DEF LogInv

LEMMA TakenAreShaped ==
  ASSUME NEW base \in 0 .. Len(sent), CallInv, SentInv, TaskInv(base)
  PROVE  /\ \A i \in 1 .. base : Shaped(calls[sent[i]].req)
         /\ \A u \in tasks : Shaped(u.req)
  <1>1. ASSUME NEW i \in 1 .. base PROVE Shaped(calls[sent[i]].req)
    <2> DEFINE k == sent[i]
    <2>1. k \in 1 .. Len(calls) /\ k \in 1 .. MaxCalls
      BY CorrIsCall DEF SentInv, CallInv, IsQueue
    <2> HIDE DEF k
    <2>2. calls[k].req \in Requests[k]
      BY <2>1 DEF CallInv
    <2>3. Shaped(calls[k].req)
      BY <2>1, <2>2, RequestsAreShaped
    <2>4. QED
      BY <2>3 DEF k
  <1>2. QED
    BY <1>1 DEF TaskInv, From

LEMMA TaskTrueStays ==
  ASSUME NEW base \in 0 .. Len(sent), CallInv, SentInv, TaskInv(base),
         LogTyped, LogTyped', Grown, NEW u \in tasks, TaskTrue(u)
  PROVE  TaskTrue(u)'
  <1>1. Shaped(u.req)
    BY TakenAreShaped
  <1>2. CASE u.phase # "read"
    <2>1. Justified(u.req, u.resp)
      BY <1>2 DEF TaskTrue
    <2>2. Justified(u.req, u.resp)'
      BY <1>1, <2>1, JustifiedStays
    <2>3. CASE u.phase # "wait"
      BY <1>2, <2>2, <2>3 DEF TaskTrue
    <2>4. CASE u.phase = "wait"
      <3>1. u.req.partition \in Nat /\ Partition(u.req.topic, u.req.partition)
        BY <1>1, <2>4 DEF TaskInv, Shaped, TaskTrue
      <3>2. Partition(u.req.topic, u.req.partition)'
        BY <3>1, PartitionStays
      <3>3. QED
        BY <2>2, <2>4, <3>2 DEF TaskTrue
    <2>5. QED
      BY <2>3, <2>4
  <1>3. CASE u.phase = "read"
    <2>1. u.req.partition \in Nat /\ Partition(u.req.topic, u.req.partition)
      BY <1>1, <1>3 DEF TaskInv, Shaped, TaskTrue
    <2>2. Partition(u.req.topic, u.req.partition)'
      BY <2>1, PartitionStays
    <2>3. QED
      BY <1>3, <2>2 DEF TaskTrue
  <1>4. QED
    BY <1>2, <1>3

\* The answers given so far, after a step that answers corr, with what is justified, or
\* nothing.
LEMMA AnswersStayTrue ==
  ASSUME NEW base \in 0 .. Len(sent), CallInv, SentInv, TaskInv(base), TruthInv(base),
         UNCHANGED <<calls, sent>>, LogTyped, LogTyped', Grown,
         NEW i \in 1 .. base, handled'[Corr(sent[i])] = handled[Corr(sent[i])],
         NEW req \in {calls'[sent'[i]].req}, NEW resp \in {handled'[Corr(sent'[i])].answer},
         resp # Pending
  PROVE  Justified(req, resp)'
  <1>1. req = calls[sent[i]].req /\ resp = handled[Corr(sent[i])].answer
    OBVIOUS
  <1>2. Justified(req, resp) /\ Shaped(req)
    BY <1>1, TakenAreShaped DEF TruthInv
  <1>3. QED
    BY <1>2, JustifiedStays

\* A request is answered under its own id.
LEMMA OthersStay ==
  ASSUME NEW corr \in DOMAIN handled, NEW req,
         Ignored \/ AnsweredAtOnce(req, corr) \/ TaskSpawned(req, corr),
         NEW c \in DOMAIN handled, c # corr
  PROVE  handled'[c] = handled[c]
  <1>1. CASE Ignored \/ TaskSpawned(req, corr)
    BY <1>1 DEF Ignored, TaskSpawned
  <1>2. CASE AnsweredAtOnce(req, corr)
    <2>1. PICK resp : handled' = [handled EXCEPT ![corr].answer = resp]
      BY <1>2 DEF AnsweredAtOnce, Respond
    <2>2. QED
      BY <2>1
  <1>3. QED
    BY <1>1, <1>2

LEMMA FrameKeepsLogs ==
  ASSUME NEW base \in 0 .. Len(sent), Inv(base), LogInv(base), CodecInverts, ServeFrame
  PROVE  LogInv(base + 1)'
  <1>1. UNCHANGED <<calls, sent, cut>> /\ up # <<>> /\ up' = Tail(up) /\ session = "loop"
    BY DEF ServeFrame, clientVars
  <1>2. PICK k \in {sent[base + 1]} : TRUE
    OBVIOUS
  <1>3. PICK req \in {calls[k].req} : TRUE
    OBVIOUS
  <1>4. PICK corr \in {Corr(k)} : TRUE
    OBVIOUS
  <1>5. /\ base \in Nat /\ base + 1 \in 0 .. Len(sent)
        /\ k \in 1 .. Len(calls) /\ k \in 1 .. MaxCalls
        /\ TaskInv(base + 1) /\ AnswerInv(base + 1)
        /\ Head(up) = PutRequest(req, corr)
        /\ corr \in DOMAIN handled /\ ~Answered(corr)
        /\ req \in Requests[k]
    BY <1>1, <1>2, <1>3, <1>4, NextFrame DEF Inv
  <1>6. Shaped(req)
    BY <1>5, RequestsAreShaped
  <1>7. LogTyped /\ TruthInv(base) /\ SumInv(base)
    BY <1>1 DEF LogInv
  <1>8. CASE UNCHANGED <<topics, tasks, handled>> /\ session' = "draining"
    <2>1. LogTyped'
      BY <1>7, <1>8 DEF LogTyped
    <2>2. SumInv(base)'
      <3>1. ASSUME NEW t, NEW p, NEW U, Sums(U, base, t, p) PROVE Sums(U, base, t, p)'
        BY <1>1, <3>1 DEF Sums, BatchFor
      <3>2. QED
        BY <1>7, <1>8, <3>1 DEF SumInv, LogOf
    <2>3. TruthInv(base + 1)'
      <3>1. ASSUME NEW r, NEW a, Justified(r, a) PROVE Justified(r, a)'
        BY <1>8, <3>1 DEF Justified, Partition, TrueAnswer, AppendedThere, FetchedThere, LogOf
      <3>2. \A t \in tasks' : TaskTrue(t)'
        BY <1>7, <1>8, <3>1 DEF TruthInv, TaskTrue, Partition
      <3>3. ASSUME NEW i \in 1 .. base + 1, NEW q \in {calls'[sent'[i]].req},
                   NEW resp \in {handled'[Corr(sent'[i])].answer}, resp # Pending
            PROVE  Justified(q, resp)'
        <4>1. q = calls[sent[i]].req /\ resp = handled[Corr(sent[i])].answer
          BY <1>1, <1>8
        <4>2. i # base + 1
          BY <1>2, <1>4, <1>5, <3>3, <4>1 DEF Answered
        <4>3. i \in 1 .. base
          BY <1>5, <4>2
        <4>4. Justified(q, resp)
          BY <1>7, <3>3, <4>1, <4>3 DEF TruthInv
        <4>5. QED
          BY <3>1, <4>4
      <3>4. QED
        BY <3>2, <3>3 DEF TruthInv
    <2>4. base \in 0 .. base + 1 /\ session' # "loop"
      BY <1>5, <1>8
    <2>5. QED
      BY <2>1, <2>2, <2>3, <2>4 DEF LogInv
  <1>9. CASE Dispatch(req, corr)
    <2>1. /\ LogTyped' /\ Grown
          /\ \A t \in DOMAIN InitTopics : \A p \in 0 .. InitTopics[t] - 1 :
                LogOf(t, p)' = LogOf(t, p) \o BatchFor(k, t, p)
      BY <1>3, <1>5, <1>7, <1>9, DispatchLogs DEF Inv
    <2>2. SumInv(base + 1)'
      <3>1. ASSUME NEW t \in DOMAIN InitTopics, NEW p \in 0 .. InitTopics[t] - 1
            PROVE  \E U \in [0 .. base + 1 -> Seq(Records)] :
                      Sums(U, base + 1, t, p)' /\ LogOf(t, p)' = U[base + 1]
        <4>1. PICK U \in [0 .. base -> Seq(Records)] :
                 Sums(U, base, t, p) /\ LogOf(t, p) = U[base]
          BY <1>7 DEF SumInv
        <4> DEFINE b == BatchFor(k, t, p)
        <4>2. b \in Seq(Records)
          BY <1>5, BatchIsSeq DEF Inv
        <4>3. LogOf(t, p)' = U[base] \o b
          BY <2>1, <4>1
        <4> HIDE DEF b
        <4>4. \E V \in [0 .. base + 1 -> Seq(Records)] :
                 V[base + 1] = U[base] \o b /\ \A i \in 0 .. base : V[i] = U[i]
          <5> DEFINE W == [i \in 0 .. base + 1 |-> IF i <= base THEN U[i] ELSE U[base] \o b]
          <5>1. W \in [0 .. base + 1 -> Seq(Records)]
            BY <1>5, <4>1, <4>2
          <5>2. W[base + 1] = U[base] \o b /\ \A i \in 0 .. base : W[i] = U[i]
            BY <1>5
          <5> HIDE DEF W
          <5>3. QED
            BY <5>1, <5>2
        <4>5. PICK V \in [0 .. base + 1 -> Seq(Records)] :
                 V[base + 1] = U[base] \o b /\ \A i \in 0 .. base : V[i] = U[i]
          BY <4>4
        <4>6. ASSUME NEW i \in 1 .. base + 1
              PROVE  V[i] = V[i - 1] \o BatchFor(sent[i], t, p)
          <5>1. CASE i = base + 1
            <6>1. i - 1 = base /\ base \in 0 .. base
              BY <1>5, <5>1
            <6>2. V[i] = U[base] \o b /\ V[i - 1] = U[base]
              BY <4>5, <5>1, <6>1
            <6>3. BatchFor(sent[i], t, p) = b
              BY <1>2, <5>1 DEF b
            <6>4. QED
              BY <6>2, <6>3
          <5>2. CASE i \in 1 .. base
            <6>1. U[i] = U[i - 1] \o BatchFor(sent[i], t, p)
              BY <4>1, <5>2, Zenon DEF Sums
            <6>2. V[i] = U[i] /\ V[i - 1] = U[i - 1]
              BY <1>5, <4>5, <5>2
            <6>3. QED
              BY <6>1, <6>2
          <5>3. i = base + 1 \/ i \in 1 .. base
            BY <1>5
          <5>4. QED
            BY <5>1, <5>2, <5>3, Zenon
        <4>7. V[0] = <<>>
          BY <1>5, <4>1, <4>5 DEF Sums
        <4>8. Sums(V, base + 1, t, p)
          BY <4>6, <4>7 DEF Sums
        <4>9. Sums(V, base + 1, t, p)'
          <5>1. base + 1 \in Nat
            BY <1>5
          <5>2. QED
            BY <1>1, <4>8, <5>1, SumsStay
        <4>10. QED
          BY <4>3, <4>4, <4>5, <4>9
      <3>2. QED
        BY <3>1 DEF SumInv
    <2>3. TruthInv(base + 1)'
      <3>1. PICK answer \in {handled'[corr].answer} : TRUE
        OBVIOUS
      <3>2. handled[corr] = [answer |-> handled[corr].answer]
        BY <1>5 DEF AnswerInv
      <3>3. /\ \A u \in tasks' : u \in tasks \/ (u.req = req /\ TaskTrue(u)')
            /\ Answered(corr)' => Justified(req, answer)'
        BY <1>5, <1>6, <1>7, <1>9, <3>1, <3>2, DispatchTruth
      <3>4. ASSUME NEW u \in tasks PROVE TaskTrue(u)'
        <4>1. TaskTrue(u)
          BY <1>7 DEF TruthInv
        <4>2. QED
          BY <1>7, <2>1, <4>1, TaskTrueStays DEF Inv
      <3>5. ASSUME NEW i \in 1 .. base + 1, NEW q \in {calls'[sent'[i]].req},
                   NEW resp \in {handled'[Corr(sent'[i])].answer}, resp # Pending
            PROVE  Justified(q, resp)'
        <4>1. CASE i = base + 1
          <5>1. q = req /\ resp = answer
            BY <1>1, <1>2, <1>3, <1>4, <3>1, <3>5, <4>1
          <5>2. Answered(corr)'
            BY <3>1, <3>5, <5>1 DEF Answered
          <5>3. QED
            BY <3>3, <5>1, <5>2
        <4>2. CASE i \in 1 .. base
          <5>1. Corr(sent[i]) \in DOMAIN handled /\ Corr(sent[i]) # corr
            <6>1. i \in 1 .. Len(sent) /\ base + 1 \in 1 .. Len(sent) /\ i # base + 1
              BY <1>5, <4>2
            <6>2. sent[i] # sent[base + 1]
              BY <6>1 DEF Inv, SentInv
            <6>3. sent[i] \in 1 .. MaxCalls
              BY <6>1, CorrIsCall DEF Inv, SentInv, CallInv, IsQueue
            <6>4. Corr(sent[i]) = sent[i] /\ corr = k
              BY <1>4, <1>5, <6>3, CorrIsCall
            <6>5. QED
              BY <1>2, <6>2, <6>3, <6>4 DEF Inv, AnswerInv
          <5>2. handled'[Corr(sent[i])] = handled[Corr(sent[i])]
            <6>1. Ignored \/ AnsweredAtOnce(req, corr) \/ TaskSpawned(req, corr)
              BY <1>5, <1>9, <3>2, DispatchEffect
            <6>2. QED
              BY <1>5, <5>1, <6>1, OthersStay
          <5>3. QED
            BY <1>1, <1>7, <2>1, <3>5, <4>2, <5>2, AnswersStayTrue DEF Inv
        <4>3. i = base + 1 \/ i \in 1 .. base
          BY <1>5
        <4>4. QED
          BY <4>1, <4>2, <4>3, Zenon
      <3>6. QED
        BY <3>3, <3>4, <3>5 DEF TruthInv
    <2>4. QED
      BY <1>5, <2>1, <2>2, <2>3 DEF LogInv
  <1>10. Dispatch(req, corr) \/ (UNCHANGED <<topics, tasks, handled>> /\ session' = "draining")
    <2>1. PICK got \in {GetRequest(Head(up))} : TRUE
      OBVIOUS
    <2>2. CASE ~Fits(Head(up)) \/ ~got.ok
      BY <2>1, <2>2 DEF ServeFrame
    <2>3. CASE Fits(Head(up)) /\ got.ok
      <3>1. k \in DOMAIN calls
        BY <1>5, QueueIsSeq DEF Inv, CallInv
      <3>2. got.msg = req /\ got.corr = corr
        BY <1>3, <1>4, <1>5, <2>1, <2>3, <3>1 DEF CodecInverts, Reads
      <3>3. QED
        BY <2>1, <2>3, <3>2 DEF ServeFrame
    <2>4. QED
      BY <2>2, <2>3
  <1>11. QED
    BY <1>8, <1>9, <1>10

\* A read answers with the records of the log.
LEMMA ReadIsTrue ==
  ASSUME LogTyped, NEW req, Shaped(req), req.type = "Fetch",
         Partition(req.topic, req.partition), NEW n \in Nat,
         req.offset + n <= Len(LogOf(req.topic, req.partition)), NEW next, NEW records,
         records = [i \in 1 .. n |->
                      FetchedRecord(LogOf(req.topic, req.partition), req.offset + i)]
  PROVE  Justified(req, Fetched("None", next, records))
  <1> DEFINE log == LogOf(req.topic, req.partition)
             resp == Fetched("None", next, records)
  <1>1. resp.records = records
    BY DEF Fetched
  <1>2. records \in Seq({FetchedRecord(log, req.offset + i) : i \in 1 .. n})
    BY SeqDef
  <1>3. Len(records) = n /\ DOMAIN records = 1 .. n /\ IsQueue(records)
    BY <1>2 DEF IsQueue
  <1>4. ASSUME NEW i \in 1 .. n
        PROVE  /\ records[i].offset = req.offset + i - 1
               /\ records[i].key = log[req.offset + i].key
               /\ records[i].value = log[req.offset + i].value
    <2>1. records[i] = FetchedRecord(log, req.offset + i)
      OBVIOUS
    <2> DEFINE j == req.offset + i
    <2>2. /\ FetchedRecord(log, j).offset = j - 1
          /\ FetchedRecord(log, j).key = log[j].key
          /\ FetchedRecord(log, j).value = log[j].value
      BY DEF FetchedRecord
    <2>3. j - 1 = req.offset + i - 1
      BY DEF Shaped
    <2> HIDE DEF log, j
    <2>4. records[i] = FetchedRecord(log, j)
      BY <2>1 DEF j
    <2>5. /\ records[i].offset = j - 1
          /\ records[i].key = log[j].key /\ records[i].value = log[j].value
      BY <2>2, <2>4
    <2>6. QED
      BY <2>3, <2>5 DEF j
  <1> HIDE DEF resp
  <1>5. FetchedThere(req, resp)
    BY <1>1, <1>3, <1>4 DEF FetchedThere
  <1>6. Justified(req, resp)
    BY <1>1, <1>3, <1>5 DEF Justified, TrueAnswer
  <1>7. QED
    BY <1>6 DEF resp

\* What a task answers is true, and what it may still answer when it goes on.
LEMMA TaskTruth ==
  ASSUME NEW base \in 0 .. Len(sent), Inv(base), LogInv(base), NEW t \in tasks, TaskStep(t)
  PROVE  /\ UNCHANGED topics
         /\ \/ \E resp : Reply(t, resp) /\ Justified(t.req, resp)
            \/ /\ UNCHANGED handled
               /\ \E u : tasks' = (tasks \ {t}) \cup {u} /\ TaskTrue(u)
  <1>1. /\ t = Task(t.corr, t.phase, t.req, t.resp)
        /\ t.phase \in {"read", "wait"} => t.req.type = "Fetch"
    BY DEF Inv, TaskInv
  <1>2. TaskTrue(t) /\ LogTyped /\ Shaped(t.req)
    BY TakenAreShaped DEF LogInv, TruthInv, Inv
  <1>3. UNCHANGED topics
    BY DEF TaskStep, ReplyReady, CommitApplies, FetchReads, FetchWakes, FetchTimesOut
  <1>4. ASSUME NEW phase, NEW resp, UNCHANGED handled,
               tasks' = (tasks \ {t}) \cup {[t EXCEPT !.phase = phase, !.resp = resp]},
               phase \in {"read", "wait"} => Partition(t.req.topic, t.req.partition),
               phase # "read" => Justified(t.req, resp)
        PROVE  \E u : tasks' = (tasks \ {t}) \cup {u} /\ TaskTrue(u)
    <2> DEFINE u == [t EXCEPT !.phase = phase, !.resp = resp]
    <2>1. u = Task(t.corr, phase, t.req, resp)
      <3>1. t = Task(t.corr, t.phase, t.req, t.resp)
        BY <1>1, Zenon
      <3>2. QED
        BY <3>1, FieldsOfTask, Zenon
    <2>2. tasks' = (tasks \ {t}) \cup {u}
      BY <1>4
    <2> HIDE DEF u
    <2>3. u.phase = phase /\ u.resp = resp /\ u.req = t.req
      BY <2>1, TaskFields
    <2>4. TaskTrue(u)
      BY <1>4, <2>3 DEF TaskTrue
    <2>5. QED
      BY <2>2, <2>4
  <1>5. CASE ReplyReady(t) \/ CommitApplies(t) \/ FetchTimesOut(t)
    <2>1. Reply(t, t.resp) /\ t.phase # "read"
      BY <1>5 DEF ReplyReady, CommitApplies, FetchTimesOut
    <2>2. Justified(t.req, t.resp)
      BY <1>2, <2>1 DEF TaskTrue
    <2>3. QED
      BY <1>3, <2>1, <2>2
  <1>6. CASE FetchWakes(t)
    BY <1>2, <1>3, <1>4, <1>6 DEF FetchWakes, TaskTrue
  <1>7. CASE FetchReads(t)
    <2> DEFINE log == LogOf(t.req.topic, t.req.partition)
               from == t.req.offset
               empty == Fetched("None", Len(log), <<>>)
    <2>1. t.req.type = "Fetch" /\ Partition(t.req.topic, t.req.partition)
      BY <1>1, <1>2, <1>7 DEF FetchReads, TaskTrue
    <2>2. from \in Nat /\ Len(log) \in Nat
      <3>1. t.req.topic \in DOMAIN topics /\ topics[t.req.topic] \in Seq(Seq(Records))
            /\ t.req.partition \in Nat /\ t.req.partition < Len(topics[t.req.topic])
        BY <1>2, <2>1 DEF LogTyped, Partition, Shaped
      <3>2. t.req.partition + 1 \in 1 .. Len(topics[t.req.topic])
        BY <3>1
      <3>3. log \in Seq(Records)
        BY <3>1, <3>2 DEF LogOf
      <3>4. QED
        BY <1>2, <2>1, <3>3 DEF Shaped
    <2>3. from = Len(log) => Justified(t.req, empty)
      <3>1. <<>> = [i \in 1 .. 0 |-> FetchedRecord(log, from + i)]
        OBVIOUS
      <3>2. from = Len(log) => from + 0 <= Len(log)
        BY <2>2
      <3>3. QED
        BY <1>2, <2>1, <3>1, <3>2, ReadIsTrue
    <2>4. \/ from > Len(log) /\ Reply(t, Fetched("OffsetOutOfRange", 0, <<>>))
          \/ /\ from < Len(log)
             /\ \E n \in 1 .. Len(log) - from :
                   Reply(t, Fetched("None", Len(log), [i \in 1 .. n |-> FetchedRecord(log, from + i)]))
          \/ from = Len(log) /\ Reply(t, empty)
          \/ /\ from = Len(log)
             /\ tasks' = (tasks \ {t}) \cup {[t EXCEPT !.phase = "wait", !.resp = empty]}
             /\ UNCHANGED handled
      BY <1>7 DEF FetchReads
    <2>5. CASE Reply(t, Fetched("OffsetOutOfRange", 0, <<>>))
      <3>1. Justified(t.req, Fetched("OffsetOutOfRange", 0, <<>>))
        BY DEF Fetched, Justified
      <3>2. QED
        BY <1>3, <2>5, <3>1
    <2>6. CASE /\ from < Len(log)
               /\ \E n \in 1 .. Len(log) - from :
                   Reply(t, Fetched("None", Len(log), [i \in 1 .. n |-> FetchedRecord(log, from + i)]))
      <3>1. PICK n \in 1 .. Len(log) - from :
               Reply(t, Fetched("None", Len(log), [i \in 1 .. n |-> FetchedRecord(log, from + i)]))
        BY <2>6
      <3>2. n \in Nat /\ from + n <= Len(log)
        BY <2>2, <2>6
      <3>3. Justified(t.req, Fetched("None", Len(log), [i \in 1 .. n |-> FetchedRecord(log, from + i)]))
        BY <1>2, <2>1, <3>2, ReadIsTrue
      <3>4. QED
        BY <1>3, <3>1, <3>3
    <2> HIDE DEF empty
    <2>7. CASE from = Len(log) /\ Reply(t, empty)
      BY <1>3, <2>3, <2>7
    <2>8. CASE /\ from = Len(log)
               /\ tasks' = (tasks \ {t}) \cup {[t EXCEPT !.phase = "wait", !.resp = empty]}
               /\ UNCHANGED handled
      BY <1>3, <1>4, <2>1, <2>3, <2>8
    <2>9. QED
      BY <2>4, <2>5, <2>6, <2>7, <2>8
  <1>8. QED
    BY <1>5, <1>6, <1>7 DEF TaskStep

LEMMA TaskStepKeepsLogs ==
  ASSUME NEW base \in 0 .. Len(sent), Inv(base), LogInv(base), NEW t \in tasks, TaskStep(t)
  PROVE  LogInv(base)'
  <1>1. UNCHANGED <<calls, sent, session, topics>>
    BY TaskTruth DEF TaskStep, clientVars
  <1>2. CallInv /\ SentInv /\ TaskInv(base) /\ AnswerInv(base) /\ LogTyped /\ TruthInv(base)
    BY DEF Inv, LogInv
  <1>3. LogTyped' /\ Grown
    BY <1>1, <1>2, SameIsGrown
  <1>4. \E n \in 0 .. base : (session' = "loop" => n = base) /\ SumInv(n)'
    <2>1. PICK n \in 0 .. base : (session = "loop" => n = base) /\ SumInv(n)
      BY DEF LogInv
    <2>2. ASSUME NEW topic, NEW p, NEW U, Sums(U, n, topic, p)
          PROVE  Sums(U, n, topic, p)'
      BY <1>1, <2>2, SumsStay
    <2>3. SumInv(n)'
      BY <1>1, <2>1, <2>2 DEF SumInv, LogOf
    <2>4. QED
      BY <1>1, <2>1, <2>3
  <1>5. ASSUME NEW r, NEW a, Justified(r, a) PROVE Justified(r, a)'
    BY <1>1, <1>5 DEF Justified, Partition, TrueAnswer, AppendedThere, FetchedThere, LogOf
  <1>6. ASSUME NEW u, TaskTrue(u) PROVE TaskTrue(u)'
    BY <1>1, <1>5, <1>6 DEF TaskTrue, Partition
  <1>7. ASSUME NEW i \in 1 .. base, handled'[Corr(sent[i])] = handled[Corr(sent[i])],
               NEW req \in {calls'[sent'[i]].req},
               NEW resp \in {handled'[Corr(sent'[i])].answer}, resp # Pending
        PROVE  Justified(req, resp)'
    BY <1>1, <1>2, <1>3, <1>7, AnswersStayTrue
  <1>8. CASE /\ UNCHANGED handled
             /\ \E u : tasks' = (tasks \ {t}) \cup {u} /\ TaskTrue(u)
    <2>1. \A u \in tasks' : TaskTrue(u)'
      BY <1>2, <1>6, <1>8 DEF TruthInv
    <2>2. \A i \in 1 .. base : handled'[Corr(sent[i])] = handled[Corr(sent[i])]
      BY <1>8
    <2>3. TruthInv(base)'
      BY <1>7, <2>1, <2>2 DEF TruthInv
    <2>4. QED
      BY <1>3, <1>4, <2>3 DEF LogInv
  <1>9. CASE \E resp : Reply(t, resp) /\ Justified(t.req, resp)
    <2>1. PICK answer : Reply(t, answer) /\ Justified(t.req, answer)
      BY <1>9
    <2>2. PICK corr \in {t.corr} : TRUE
      OBVIOUS
    <2>3. tasks' = tasks \ {t} /\ Respond(corr, answer)
      BY <2>1, <2>2 DEF Reply
    <2>4. corr \in DOMAIN handled /\ handled[corr] = [answer |-> handled[corr].answer]
      BY <1>2, <2>2, TaskIds DEF AnswerInv
    <2>5. handled'[corr].answer = answer
      BY <2>3, <2>4, RespondIsAnswer
    <2>6. \A c \in DOMAIN handled : c # corr => handled'[c] = handled[c]
      BY <2>3 DEF Respond
    <2>7. PICK j \in 1 .. base : corr = Corr(sent[j]) /\ t.req = calls[sent[j]].req
      BY <1>2, <2>2 DEF TaskInv, From
    <2>8. ASSUME NEW i \in 1 .. base, NEW req \in {calls'[sent'[i]].req},
                 NEW resp \in {handled'[Corr(sent'[i])].answer}, resp # Pending
          PROVE  Justified(req, resp)'
      <3>1. /\ sent[i] \in 1 .. MaxCalls /\ sent[j] \in 1 .. MaxCalls
            /\ Corr(sent[i]) = sent[i] /\ Corr(sent[j]) = sent[j]
            /\ Corr(sent[i]) \in DOMAIN handled
        <4>1. \A l \in 1 .. base : sent[l] \in 1 .. MaxCalls
          BY <1>2, CorrIsCall DEF SentInv, CallInv, IsQueue
        <4>2. \A l \in 1 .. base : Corr(sent[l]) = sent[l] /\ Corr(sent[l]) \in DOMAIN handled
          BY <1>2, <4>1, CorrIsCall DEF AnswerInv
        <4>3. QED
          BY <4>1, <4>2
      <3>2. CASE Corr(sent[i]) = corr
        <4>1. sent[i] = sent[j]
          BY <2>7, <3>1, <3>2
        <4>2. req = t.req /\ resp = answer
          BY <1>1, <2>5, <2>7, <2>8, <3>2, <4>1
        <4>3. Justified(req, resp)
          BY <2>1, <4>2
        <4>4. QED
          BY <1>5, <4>3
      <3>3. CASE Corr(sent[i]) # corr
        <4>1. handled'[Corr(sent[i])] = handled[Corr(sent[i])]
          BY <2>6, <3>1, <3>3
        <4>2. QED
          BY <1>7, <2>8, <4>1
      <3>4. QED
        BY <3>2, <3>3
    <2>9. \A u \in tasks' : TaskTrue(u)'
      BY <1>2, <1>6, <2>3 DEF TruthInv
    <2>10. TruthInv(base)'
      BY <2>8, <2>9 DEF TruthInv
    <2>11. QED
      BY <1>3, <1>4, <2>10 DEF LogInv
  <1>10. QED
    BY <1>8, <1>9, TaskTruth

------------------------------------------------------------------------------
(* The theorems about logs *)

LEMMA InitiallyLogs ==
  ASSUME Init
  PROVE  LogInv(0)
  <1>1. topics = [t \in DOMAIN InitTopics |-> [p \in 1 .. InitTopics[t] |-> <<>>]] /\ tasks = {}
    BY DEF Init
  <1>2. ASSUME NEW t \in DOMAIN InitTopics
        PROVE  /\ topics[t] \in Seq(Seq(Records)) /\ Len(topics[t]) = InitTopics[t]
               /\ \A p \in 0 .. InitTopics[t] - 1 : LogOf(t, p) = <<>>
    <2> DEFINE n == InitTopics[t]
    <2>1. n \in Nat /\ topics[t] = [p \in 1 .. n |-> <<>>]
      BY <1>1, ConnectionAssumption
    <2> HIDE DEF n
    <2>2. [p \in 1 .. n |-> <<>>] \in [1 .. n -> Seq(Records)]
      OBVIOUS
    <2>3. topics[t] \in Seq(Seq(Records)) /\ Len(topics[t]) = n
      BY <2>1, <2>2
    <2>4. ASSUME NEW p \in 0 .. n - 1 PROVE LogOf(t, p) = <<>>
      <3>1. p + 1 \in 1 .. n
        BY <2>1
      <3>2. QED
        BY <2>1, <3>1 DEF LogOf
    <2>5. QED
      BY <2>3, <2>4 DEF n
  <1>3. LogTyped
    BY <1>1, <1>2 DEF LogTyped
  <1>4. SumInv(0)
    <2> DEFINE U == [i \in 0 .. 0 |-> <<>>]
    <2>1. U \in [0 .. 0 -> Seq(Records)] /\ U[0] = <<>> /\ \A t, p : Sums(U, 0, t, p)
      BY DEF Sums
    <2> HIDE DEF U
    <2>2. QED
      BY <1>2, <2>1 DEF SumInv
  <1>5. TruthInv(0)
    BY <1>1 DEF TruthInv
  <1>6. QED
    BY <1>3, <1>4, <1>5 DEF LogInv

LogIndInv == \E base \in 0 .. Len(sent) : Inv(base) /\ LogInv(base)

\* What the frames taken so far have put into the logs, and what is said of it, is
\* the same in every reachable state.
THEOREM LogInvariance == Spec /\ []CodecInverts => []LogIndInv
  <1>1. Init => LogIndInv
    BY Initially, InitiallyLogs DEF LogIndInv, Inv
  <1>2. LogIndInv /\ CodecInverts /\ [Next]_vars => LogIndInv'
    <2>1. SUFFICES ASSUME LogIndInv, CodecInverts, [Next]_vars
                   PROVE  LogIndInv'
      OBVIOUS
    <2>2. PICK base \in 0 .. Len(sent) : Inv(base) /\ LogInv(base)
      BY <2>1 DEF LogIndInv
    <2>3. CASE ServeFrame
      <3>1. Inv(base + 1)' /\ LogInv(base + 1)'
        BY <2>1, <2>2, <2>3, FrameServed, FrameKeepsLogs
      <3>2. QED
        BY <3>1 DEF LogIndInv, Inv
    <2>4. CASE \E t \in tasks : TaskStep(t)
      <3>1. Inv(base)' /\ LogInv(base)'
        BY <2>2, <2>4, TaskSteps, TaskStepKeepsLogs
      <3>2. QED
        BY <3>1 DEF LogIndInv, Inv
    <2>5. CASE \/ ClientStep \/ LoopEnds \/ SessionEnds \/ Shutdown \/ Cut \/ UNCHANGED vars
      <3>1. Inv(base)' /\ LogInv(base)'
        BY <2>1, <2>2, <2>5, QuietKeepsInv, QuietKeepsLogs
      <3>2. QED
        BY <3>1 DEF LogIndInv, Inv
    <2>6. QED
      BY <2>1, <2>3, <2>4, <2>5, StepKinds
  <1>3. QED
    BY <1>1, <1>2, PTL DEF Spec

\* The requests of a connection take effect in the order in which they were made, none
\* twice and none skipped: what a partition holds is a prefix of what was sent to it.
THEOREM LogsAreWhatWasSent == Spec /\ []CodecInverts => []PipelinedInOrder
  <1>1. LogIndInv => PipelinedInOrder
    <2>1. SUFFICES ASSUME LogIndInv, NEW t \in DOMAIN InitTopics, NEW p \in 0 .. InitTopics[t] - 1
                   PROVE  /\ Len(LogOf(t, p)) <= Len(SentTo(t, p))
                          /\ LogOf(t, p) = SubSeq(SentTo(t, p), 1, Len(LogOf(t, p)))
      BY DEF PipelinedInOrder
    <2>2. PICK base \in 0 .. Len(sent) : Inv(base) /\ LogInv(base)
      BY <2>1 DEF LogIndInv
    <2>3. PICK n \in 0 .. base : SumInv(n)
      BY <2>2 DEF LogInv
    <2>4. PICK V \in [0 .. n -> Seq(Records)] : Sums(V, n, t, p) /\ LogOf(t, p) = V[n]
      BY <2>3 DEF SumInv
    <2>5. PICK U \in [0 .. Len(sent) -> Seq(Records)] :
             Sums(U, Len(sent), t, p) /\ SentTo(t, p) = U[Len(sent)]
      BY <2>2, SentToIsSum DEF Inv
    <2>6. Len(sent) \in Nat /\ n \in Nat /\ n \in 0 .. Len(sent)
      BY <2>2 DEF Inv, SentInv, IsQueue
    <2>7. U[n] = V[n]
      BY <2>4, <2>5, <2>6, SumsAgree
    <2>8. Prefix(U[n], U[Len(sent)])
      BY <2>2, <2>5, <2>6, SumsGrow DEF Inv
    <2> DEFINE log == LogOf(t, p)
               all == SentTo(t, p)
    <2>9. Prefix(log, all) /\ log \in Seq(Records) /\ all \in Seq(Records)
      BY <2>4, <2>5, <2>6, <2>7, <2>8
    <2> HIDE DEF log, all
    <2>10. Len(log) <= Len(all) /\ log = SubSeq(all, 1, Len(log))
      BY <2>9 DEF Prefix
    <2>11. QED
      BY <2>10 DEF log, all
  <1>2. QED
    BY <1>1, LogInvariance, PTL

\* A producer is given the offset its records are at, and a consumer the records at the
\* offsets it asked for, however late the answer was taken from its task.
THEOREM AnswersTellTheTruth == Spec /\ []CodecInverts => []AnswersAreTrue
  <1>1. LogIndInv => AnswersAreTrue
    <2>1. SUFFICES ASSUME LogIndInv, NEW k \in DOMAIN calls, Outcome(k) = "Ok"
                   PROVE  TrueAnswer(calls[k].req, calls[k].result)
      BY DEF AnswersAreTrue
    <2>2. PICK base \in 0 .. Len(sent) : Inv(base) /\ LogInv(base)
      BY <2>1 DEF LogIndInv
    <2>3. k \in 1 .. Len(calls) /\ k \in 1 .. MaxCalls
      BY <2>1, <2>2, QueueIsSeq, CorrIsCall DEF Inv, CallInv, IsQueue
    <2>4. /\ calls[k].result \notin Specials /\ calls[k].result.type = calls[k].req.type
          /\ calls[k].result.error = "None"
      BY <2>1 DEF Outcome, Specials, Pending, Closed, Unanswered
    <2>5. Answered(Corr(k)) /\ calls[k].result = handled[Corr(k)].answer
      BY <2>2, <2>3, <2>4 DEF Inv, ResultInv
    <2>6. Corr(k) = k /\ Corr(k) \in DOMAIN handled
      BY <2>2, <2>3, CorrIsCall DEF Inv, AnswerInv
    <2>7. PICK i \in 1 .. base : Corr(k) = Corr(sent[i])
      BY <2>2, <2>5, <2>6 DEF Inv, AnswerInv
    <2>8. sent[i] \in 1 .. MaxCalls
      BY <2>2, CorrIsCall DEF Inv, SentInv, CallInv, IsQueue
    <2>9. sent[i] = k
      BY <2>6, <2>7, <2>8, CorrIsCall
    <2>10. Justified(calls[k].req, calls[k].result)
      BY <2>2, <2>5, <2>9 DEF LogInv, TruthInv, Answered
    <2>11. QED
      BY <2>4, <2>10 DEF Justified, TrueAnswer
  <1>2. QED
    BY <1>1, LogInvariance, PTL

====================
