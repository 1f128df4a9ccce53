------------------------------ MODULE D2CProofs ------------------------------
(***************************************************************************)
(* Proofs about the device-to-cloud messaging utility: every message is    *)
(* completed at most once, for every set of messages, status codes, delays *)
(* and number of Init calls; and, when the agent calls                     *)
(* ADUC_D2C_Messaging_Init once, every response is applied to the message  *)
(* it answers.                                                             *)
(***************************************************************************)
EXTENDS D2CMessaging, TLAPS

USE D2CAssumption

Ctxs == [message : Message, retries : Nat, nextRetry : Nat]

(* The reported-state callback either keeps the context's message (and    *)
(* completes nothing) or completes exactly that message and empties the    *)
(* context; the context stays well typed either way.                       *)
LEMMA ResponseOutcomeShape ==
  ASSUME NEW c \in Ctxs, c.message.content # None, NEW code, NEW d,
         now \in Nat
  PROVE  LET out == ResponseOutcome(c, code, d)
         IN  /\ out.ctx \in Ctxs
             /\ \/ out.gone = {} /\ out.ctx.message = [c.message EXCEPT !.status = "In_Progress"]
                \/ out.gone = {c.message} /\ out.ctx.message = ZeroMessage
<1> DEFINE afterCb == IF d = "retryAt" THEN [c EXCEPT !.nextRetry = now + OwnerDelay]
                                       ELSE c
           Rescheduled == [c.message EXCEPT !.status = "In_Progress"]
<1>1. afterCb \in Ctxs /\ afterCb.message = c.message
  BY DEF Ctxs
<1> DEFINE Completed(s) == [afterCb EXCEPT !.message = OnMessageProcessingCompleted(@, s)]
<1>2. ASSUME NEW s \in Statuses
      PROVE  Completed(s) \in Ctxs /\ Completed(s).message = ZeroMessage
  BY <1>1 DEF Ctxs, OnMessageProcessingCompleted, DestroyMessageData, ZeroMessage,
              Message, Statuses
<1>3. ASSUME NEW t \in Nat, NEW e \in Ctxs
      PROVE  /\ Reschedule(e, t) \in Ctxs
             /\ Reschedule(e, t).message = [e.message EXCEPT !.status = "In_Progress"]
  <2> DEFINE r1 == [e EXCEPT !.nextRetry = t]
             m2 == [r1.message EXCEPT !.status = "In_Progress"]
  <2>1. r1 \in Ctxs /\ r1.message = e.message
    BY DEF Ctxs
  <2>2. m2 \in Message
    BY <2>1 DEF Ctxs, Message, Statuses
  <2>3. [r1 EXCEPT !.message = m2] \in Ctxs /\ [r1 EXCEPT !.message = m2].message = m2
    BY <2>1, <2>2 DEF Ctxs
  <2>4. Reschedule(e, t) = [r1 EXCEPT !.message = m2]
    BY DEF Reschedule
  <2>5. QED
    BY <2>1, <2>3, <2>4
<1>4. /\ now + RetryDelay \in Nat
      /\ afterCb.nextRetry \in Nat /\ afterCb.nextRetry + FallbackWait \in Nat
  BY <1>1 DEF Ctxs
<1>5. "Success" \in Statuses /\ "Max_Retries_Reached" \in Statuses
  BY DEF Statuses
<1>7. [afterCb EXCEPT !.retries = @ + 1] \in Ctxs
      /\ [afterCb EXCEPT !.retries = @ + 1].message = c.message
  BY <1>1 DEF Ctxs
<1> DEFINE success == d = "stop" \/ code \in 200..299
           row     == FirstRow(code, c.retries)
           out     == ResponseOutcome(c, code, d)
           Goal    == /\ out.ctx \in Ctxs
                      /\ \/ out.gone = {} /\ out.ctx.message = Rescheduled
                         \/ out.gone = {c.message} /\ out.ctx.message = ZeroMessage
<1>8. CASE success
  <2>1. out.ctx = Completed("Success") /\ out.gone = {c.message}
    BY <1>1, <1>8 DEF ResponseOutcome
  <2>2. Completed("Success") \in Ctxs /\ Completed("Success").message = ZeroMessage
    BY <1>2, <1>5, Zenon
  <2>3. QED
    BY <2>1, <2>2, Zenon
<1>9. CASE ~success /\ (c.retries >= MaxRetries
                        \/ (row # 0 /\ c.retries >= RetryInfo[row].maxRetry))
  <2>1. out.ctx = Completed("Max_Retries_Reached") /\ out.gone = {c.message}
    BY <1>1, <1>9 DEF ResponseOutcome
  <2>2. Completed("Max_Retries_Reached") \in Ctxs /\ Completed("Max_Retries_Reached").message = ZeroMessage
    BY <1>2, <1>5, Zenon
  <2>3. QED
    BY <2>1, <2>2, Zenon
<1>10. CASE ~success /\ ~(c.retries >= MaxRetries
                          \/ (row # 0 /\ c.retries >= RetryInfo[row].maxRetry))
            /\ row # 0
  <2>1. out.ctx = Reschedule([afterCb EXCEPT !.retries = @ + 1], now + RetryDelay)
        /\ out.gone = {}
    BY <1>10 DEF ResponseOutcome
  <2> DEFINE e == [afterCb EXCEPT !.retries = @ + 1]
             t == now + RetryDelay
  <2>4. e \in Ctxs /\ e.message = c.message /\ t \in Nat
    BY <1>4, <1>7
  <2>5. Reschedule(e, t) \in Ctxs
        /\ Reschedule(e, t).message = [e.message EXCEPT !.status = "In_Progress"]
    BY <2>4, <1>3, Zenon
  <2>2. Reschedule(e, t) \in Ctxs /\ Reschedule(e, t).message = Rescheduled
    BY <2>4, <2>5
  <2>3. QED
    BY <2>1, <2>2, Zenon
<1>11. CASE ~success /\ ~(c.retries >= MaxRetries
                          \/ (row # 0 /\ c.retries >= RetryInfo[row].maxRetry))
            /\ row = 0
  <2>1. out.ctx = Reschedule(afterCb, afterCb.nextRetry + FallbackWait) /\ out.gone = {}
    BY <1>11 DEF ResponseOutcome
  <2> DEFINE t == afterCb.nextRetry + FallbackWait
  <2>4. afterCb \in Ctxs /\ t \in Nat
    BY <1>1, <1>4
  <2>5. Reschedule(afterCb, t) \in Ctxs
        /\ Reschedule(afterCb, t).message = [afterCb.message EXCEPT !.status = "In_Progress"]
    <3>1. CASE d = "retryAt"
      <4> DEFINE a == [c EXCEPT !.nextRetry = now + OwnerDelay]
      <4>1. a \in Ctxs /\ afterCb = a
        BY <1>1, <3>1
      <4>2. Reschedule(a, t) \in Ctxs
            /\ Reschedule(a, t).message = [a.message EXCEPT !.status = "In_Progress"]
        BY <2>4, <4>1, <1>3, Zenon
      <4>3. QED
        BY <4>1, <4>2
    <3>2. CASE d # "retryAt"
      <4>1. afterCb = c
        BY <3>2
      <4>2. Reschedule(c, t) \in Ctxs
            /\ Reschedule(c, t).message = [c.message EXCEPT !.status = "In_Progress"]
        BY <2>4, <1>3, Zenon
      <4>3. QED
        BY <4>1, <4>2
    <3>3. QED
      BY <3>1, <3>2
  <2>2. Reschedule(afterCb, t) \in Ctxs /\ Reschedule(afterCb, t).message = Rescheduled
    BY <1>1, <2>5
  <2>3. QED
    BY <2>1, <2>2, Zenon
<1>12. QED
  BY <1>8, <1>9, <1>10, <1>11

(* The part of D2CIInv that needs no bound on the Init calls. *)
COwned == TypeOK /\ CompletedOnce /\ ContentsOwned

(* The OnMessageProcessingCompleted calls of a step that end only          *)
(* allocated contents leave every count at most one, and the contents     *)
(* they do not end uncompleted.                                           *)
LEMMA CompletingOwned ==
  ASSUME COwned, NEW G, Done(G) \subseteq live, Completing(G)
  PROVE  /\ completions' \in [Msgs -> Nat]
         /\ \A m \in Msgs : completions'[m] <= 1
         /\ \A m \in live \ Done(G) : completions'[m] = 0
BY DEF COwned, TypeOK, CompletedOnce, ContentsOwned, Completing

(* An empty message or one that OnMessageProcessingCompleted ended. *)
LEMMA CompletedMessage ==
  ASSUME NEW msg \in Message, NEW st \in Statuses
  PROVE  /\ OnMessageProcessingCompleted(msg, st) \in Message
         /\ OnMessageProcessingCompleted(msg, st).content = None
<1>1. ZeroMessage \in Message /\ ZeroMessage.content = None
  BY DEF ZeroMessage, Message, Statuses
<1>2. CASE msg.content = None
  BY <1>2 DEF OnMessageProcessingCompleted
<1>3. CASE msg.content # None
  BY <1>1, <1>3 DEF OnMessageProcessingCompleted, DestroyMessageData
<1>4. QED
  BY <1>2, <1>3

(* ADUC_D2C_Messaging_Init empties both slots. *)
LEMMA InitOwned == COwned /\ Init_D2C => COwned'
<1> SUFFICES ASSUME COwned, Init_D2C PROVE COwned'
  OBVIOUS
<1>1. ZeroMessage \in Message /\ ZeroMessage.content = None
  BY DEF ZeroMessage, Message, Statuses
<1>2. TypeOK'
  BY <1>1 DEF COwned, TypeOK, Init_D2C, EmptyCtx
<1>3. CompletedOnce' /\ ContentsOwned'
  BY <1>1 DEF COwned, CompletedOnce, ContentsOwned, Init_D2C, EmptyCtx
<1>4. QED
  BY <1>2, <1>3 DEF COwned

(* ADUC_D2C_Messaging_Uninit ends both messages, each once. *)
LEMMA UninitOwned == COwned /\ Uninit => COwned'
<1> SUFFICES ASSUME COwned, Uninit PROVE COwned'
  OBVIOUS
<1> DEFINE gone == {pending, ctx.message}
<1>1. Done(gone) \subseteq live
  BY DEF Done, COwned, ContentsOwned
<1>2. /\ completions' \in [Msgs -> Nat]
      /\ \A m \in Msgs : completions'[m] <= 1
      /\ \A m \in live \ Done(gone) : completions'[m] = 0
  BY <1>1, CompletingOwned DEF Uninit
<1>3. "Canceled" \in Statuses /\ pending \in Message /\ ctx.message \in Message
  BY DEF Statuses, COwned, TypeOK
<1>4. pending' \in Message /\ pending'.content = None
  BY <1>3, CompletedMessage DEF Uninit
<1>5. ctx'.message \in Message /\ ctx'.message.content = None
      /\ ctx' \in [message : Message, retries : Nat, nextRetry : Nat]
  <2>1. OnMessageProcessingCompleted(ctx.message, "Canceled") \in Message
        /\ OnMessageProcessingCompleted(ctx.message, "Canceled").content = None
    BY <1>3, CompletedMessage
  <2>2. QED
    BY <2>1 DEF Uninit, COwned, TypeOK
<1>6. TypeOK'
  BY <1>2, <1>4, <1>5 DEF COwned, TypeOK, Uninit
<1>7. CompletedOnce' /\ ContentsOwned'
  BY <1>2, <1>4, <1>5 DEF CompletedOnce, ContentsOwned, Uninit, COwned, TypeOK
<1>8. QED
  BY <1>6, <1>7 DEF COwned

(* ADUC_D2C_Messaging_Set_Transport and the clock touch no message. *)
LEMMA SetTransportOwned ==
  ASSUME NEW f \in {"default", "null"}
  PROVE  COwned /\ SetTransport(f) => COwned'
BY DEF COwned, TypeOK, CompletedOnce, ContentsOwned, SetTransport

LEMMA TickOwned == COwned /\ Tick => COwned'
BY DEF COwned, TypeOK, CompletedOnce, ContentsOwned, Tick

(* SendAsync copies a fresh content into the pending slot and ends the     *)
(* replaced one at most once, only when it has a completedCallback.       *)
LEMMA SendAsyncOwned ==
  ASSUME NEW m \in Msgs, NEW cc \in BOOLEAN, NEW rc \in BOOLEAN
  PROVE  COwned /\ SendAsync(m, cc, rc) => COwned'
<1> SUFFICES ASSUME COwned, SendAsync(m, cc, rc) PROVE COwned'
  OBVIOUS
<1> DEFINE gone == IF pending.content # None /\ pending.completedCb
                     THEN {pending} ELSE {}
<1>1. Done(gone) \subseteq live /\ Done(gone) \subseteq {pending.content}
  BY DEF Done, COwned, ContentsOwned
<1>2. /\ completions' \in [Msgs -> Nat]
      /\ \A x \in Msgs : completions'[x] <= 1
      /\ \A x \in live \ Done(gone) : completions'[x] = 0
      /\ completions'[m] = 0
  <2>1. Completing(gone) /\ m \notin live /\ completions[m] = 0
    BY DEF SendAsync, Fresh
  <2>2. QED
    BY <1>1, <2>1, CompletingOwned DEF Completing
<1>3. live' = (live \ Done(gone)) \cup {m}
  BY DEF SendAsync
<1>4. pending' \in Message /\ pending'.content = m
  BY DEF SendAsync, Message, Statuses
<1>5. ctx.message.content # None => ctx.message.content \in live \ Done(gone)
  BY <1>1 DEF COwned, ContentsOwned
<1>6. m # ctx.message.content
  BY DEF SendAsync, Fresh, COwned, ContentsOwned, TypeOK
<1>7. TypeOK'
  BY <1>2, <1>3, <1>4 DEF COwned, TypeOK, SendAsync
<1>8. CompletedOnce'
  BY <1>2 DEF CompletedOnce
<1>9. ContentsOwned'
  BY <1>2, <1>3, <1>4, <1>5, <1>6 DEF ContentsOwned, SendAsync
<1>10. QED
  BY <1>7, <1>8, <1>9 DEF COwned

(* The send at the end of ProcessMessage, on a context holding an          *)
(* allocated, uncompleted content: whether the transport postpones, hands  *)
(* the request to the hub client or fails, each content is ended at most   *)
(* once.                                                                   *)
LEMMA SendOwned ==
  ASSUME COwned, NEW c \in Ctxs, NEW gone, Done(gone) \subseteq live,
         c.message.content \in live \ Done(gone),
         pending' \in Message, pending'.content = None,
         Send(c, gone),
         ownerRetry' = {},
         UNCHANGED <<initialized, mutexAlive, transport, now, inits, answered,
                     halted>>
  PROVE  COwned'
<1> DEFINE postponed == [c EXCEPT !.nextRetry = @ + FatalWait]
<1>1. postponed \in Ctxs /\ postponed.message = c.message
  BY DEF Ctxs
<1>2. c.message.content \in Msgs /\ c.message \in Message
  BY DEF COwned, TypeOK, Ctxs
<1>3. CASE /\ ctx' \in {postponed, [c EXCEPT !.message.status = "Waiting_For_Response"]}
           /\ inflight' \subseteq inflight \cup {c.message.content}
           /\ Completing(gone) /\ live' = live \ Done(gone)
  <2>1. /\ completions' \in [Msgs -> Nat]
        /\ \A x \in Msgs : completions'[x] <= 1
        /\ \A x \in live \ Done(gone) : completions'[x] = 0
    BY <1>3, CompletingOwned
  <2>2. ctx' \in Ctxs /\ ctx'.message.content = c.message.content
    BY <1>1, <1>2, <1>3 DEF Ctxs, Message, Statuses
  <2>3. TypeOK'
    BY <1>2, <1>3, <2>1, <2>2 DEF COwned, TypeOK, Ctxs
  <2>4. QED
    BY <1>3, <2>1, <2>2, <2>3 DEF COwned, CompletedOnce, ContentsOwned
<1>4. CASE /\ ctx' = [postponed EXCEPT !.message =
                        OnMessageProcessingCompleted(c.message, "Failed")]
           /\ Completing(gone \cup {c.message})
           /\ live' = live \ Done(gone \cup {c.message})
           /\ UNCHANGED inflight
  <2>1. Done(gone \cup {c.message}) \subseteq live
    BY DEF Done
  <2>2. /\ completions' \in [Msgs -> Nat]
        /\ \A x \in Msgs : completions'[x] <= 1
    BY <1>4, <2>1, CompletingOwned
  <2>3. OnMessageProcessingCompleted(c.message, "Failed") \in Message
        /\ OnMessageProcessingCompleted(c.message, "Failed").content = None
    BY <1>2, CompletedMessage DEF Statuses
  <2>4. ctx' \in Ctxs /\ ctx'.message.content = None
    BY <1>1, <1>4, <2>3 DEF Ctxs
  <2>5. TypeOK'
    BY <1>4, <2>2, <2>4 DEF COwned, TypeOK, Ctxs
  <2>6. \A x \in live' : completions'[x] = 0
    BY <1>4, <2>1, CompletingOwned
  <2>7. QED
    BY <2>2, <2>4, <2>5, <2>6 DEF COwned, CompletedOnce, ContentsOwned
<1>5. QED
  BY <1>3, <1>4 DEF Send

(* ProcessMessage takes the pending message (ending the one it replaces)  *)
(* or resends the current one; either way it sends a content that is      *)
(* allocated and not among those it ends.                                 *)
LEMMA ProcessMessageOwned == COwned /\ ProcessMessage => COwned'
<1> SUFFICES ASSUME COwned, ProcessMessage PROVE COwned'
  OBVIOUS
<1>1. ZeroMessage \in Message /\ ZeroMessage.content = None
  BY DEF ZeroMessage, Message, Statuses
<1>2. /\ ownerRetry' = {}
      /\ UNCHANGED <<initialized, mutexAlive, transport, now, inits, answered, halted>>
  BY DEF ProcessMessage
<1>3. CASE /\ pending.content # None
           /\ ReplaceAllowed(ctx)
           /\ pending' = ZeroMessage
           /\ Send([message   |-> SetMessageStatus(pending, "In_Progress"),
                    retries   |-> 0,
                    nextRetry |-> now],
                   {SetMessageStatus(ctx.message, "Replaced")})
  <2> DEFINE c    == [message   |-> SetMessageStatus(pending, "In_Progress"),
                      retries   |-> 0,
                      nextRetry |-> now]
             gone == {SetMessageStatus(ctx.message, "Replaced")}
  <2>1. c \in Ctxs /\ c.message.content = pending.content
    BY DEF COwned, TypeOK, Ctxs, SetMessageStatus, Message, Statuses
  <2>2. Done(gone) \subseteq {ctx.message.content} \ {None}
    <3>1. SetMessageStatus(ctx.message, "Replaced").content = ctx.message.content
      BY DEF COwned, TypeOK, Message, SetMessageStatus
    <3>2. QED
      BY <3>1 DEF Done
  <2>3. Done(gone) \subseteq live /\ pending.content \in live \ Done(gone)
    BY <1>3, <2>2 DEF COwned, ContentsOwned
  <2>4. QED
    BY <1>1, <1>2, <1>3, <2>1, <2>3, SendOwned
<1>4. CASE /\ pending.content = None
           /\ RetryDue(ctx)
           /\ UNCHANGED pending
           /\ Send(ctx, {})
  <2>1. ctx \in Ctxs /\ ctx.message.content \in live \ Done({}) /\ Done({}) \subseteq live
    BY <1>4 DEF COwned, TypeOK, Ctxs, ContentsOwned, RetryDue, Done
  <2>2. pending' \in Message /\ pending'.content = None
    BY <1>4 DEF COwned, TypeOK
  <2>3. QED
    BY <1>2, <1>4, <2>1, <2>2, SendOwned
<1>5. QED
  BY <1>3, <1>4 DEF ProcessMessage

(* The reported-state callback ends the context's message at most once, or *)
(* keeps it for a resend; a response that finds the mutex gone or the      *)
(* context empty ends nothing.                                             *)
LEMMA RespondOwned ==
  ASSUME NEW r \in Msgs, NEW code \in HttpCodes
  PROVE  COwned /\ Respond(r, code) => COwned'
<1> SUFFICES ASSUME COwned, Respond(r, code) PROVE COwned'
  OBVIOUS
<1>1. inflight' \subseteq Msgs
  BY DEF Respond, COwned, TypeOK
<1>2. CASE ~mutexAlive /\ halted' = TRUE
           /\ UNCHANGED <<ctx, live, completions, answered, ownerRetry>>
  BY <1>1, <1>2 DEF Respond, COwned, TypeOK, CompletedOnce, ContentsOwned
<1>3. CASE mutexAlive /\ ctx.message.content = None
           /\ UNCHANGED <<ctx, live, completions, answered, ownerRetry, halted>>
  BY <1>1, <1>3 DEF Respond, COwned, TypeOK, CompletedOnce, ContentsOwned
<1>4. CASE /\ mutexAlive
           /\ ctx.message.content # None
           /\ answered' = [for |-> r, to |-> ctx.message.content]
           /\ \E d \in Decisions(ctx.message) :
                LET out == ResponseOutcome(ctx, code, d)
                IN  /\ ctx' = out.ctx
                    /\ Completing(out.gone)
                    /\ live' = live \ Done(out.gone)
                    /\ ownerRetry' =
                         IF d = "retryAt" /\ out.gone = {}
                           THEN {now + OwnerDelay} ELSE {}
           /\ UNCHANGED halted
  <2>1. PICK d \in Decisions(ctx.message) :
              LET out == ResponseOutcome(ctx, code, d)
              IN  /\ ctx' = out.ctx
                  /\ Completing(out.gone)
                  /\ live' = live \ Done(out.gone)
                  /\ ownerRetry' =
                       IF d = "retryAt" /\ out.gone = {}
                         THEN {now + OwnerDelay} ELSE {}
    BY <1>4
  <2> DEFINE out == ResponseOutcome(ctx, code, d)
  <2>2. ctx \in Ctxs /\ now \in Nat /\ ctx.message.content \in live
    BY <1>4 DEF COwned, TypeOK, Ctxs, ContentsOwned
  <2>3. /\ out.ctx \in Ctxs
        /\ \/ out.gone = {} /\ out.ctx.message = [ctx.message EXCEPT !.status = "In_Progress"]
           \/ out.gone = {ctx.message} /\ out.ctx.message = ZeroMessage
    BY <1>4, <2>2, ResponseOutcomeShape
  <2>4. Done(out.gone) \subseteq live
    BY <2>2, <2>3 DEF Done
  <2>5. /\ completions' \in [Msgs -> Nat]
        /\ \A x \in Msgs : completions'[x] <= 1
        /\ \A x \in live \ Done(out.gone) : completions'[x] = 0
    BY <2>1, <2>4, CompletingOwned
  <2>6. ctx'.message.content = None \/ ctx'.message.content \in live'
    <3>1. CASE out.gone = {} /\ out.ctx.message = [ctx.message EXCEPT !.status = "In_Progress"]
      <4>1. ctx'.message.content = ctx.message.content
        BY <2>1, <3>1 DEF COwned, TypeOK, Message
      <4>2. Done(out.gone) = {}
        BY <3>1 DEF Done
      <4>3. QED
        BY <2>1, <2>2, <4>1, <4>2
    <3>2. CASE out.gone = {ctx.message} /\ out.ctx.message = ZeroMessage
      BY <2>1, <3>2 DEF ZeroMessage
    <3>3. QED
      BY <2>3, <3>1, <3>2
  <2>10. Done(out.gone) \subseteq {ctx.message.content}
    BY <2>3 DEF Done
  <2>11. ctx'.message.content \in {None, ctx.message.content}
    <3>1. CASE out.gone = {} /\ out.ctx.message = [ctx.message EXCEPT !.status = "In_Progress"]
      BY <2>1, <3>1 DEF COwned, TypeOK, Message
    <3>2. CASE out.gone = {ctx.message} /\ out.ctx.message = ZeroMessage
      BY <2>1, <3>2 DEF ZeroMessage
    <3>3. QED
      BY <2>3, <3>1, <3>2
  <2>7. TypeOK'
    <3>1. ctx' \in Ctxs /\ live' \subseteq Msgs
      BY <2>1, <2>3 DEF COwned, TypeOK
    <3>2. answered' \in [for : Msgs \cup {None}, to : Msgs \cup {None}]
      BY <1>4, <2>2 DEF COwned, TypeOK
    <3>3. ownerRetry' \subseteq Nat
      BY <2>1, <2>2
    <3>4. UNCHANGED <<initialized, mutexAlive, pending, transport, now, inits, halted>>
      BY <1>4 DEF Respond
    <3>5. QED
      BY <1>1, <2>5, <3>1, <3>2, <3>3, <3>4 DEF COwned, TypeOK, Ctxs
  <2>8. ContentsOwned'
    <3>1. pending' = pending /\ live' = live \ Done(out.gone)
      BY <2>1 DEF Respond
    <3>2. pending.content # None => pending.content \in live'
      BY <2>10, <3>1 DEF COwned, ContentsOwned
    <3>3. pending.content # None => pending.content # ctx'.message.content
      BY <2>11 DEF COwned, ContentsOwned
    <3>4. QED
      BY <2>5, <2>6, <3>1, <3>2, <3>3 DEF ContentsOwned
  <2>9. QED
    BY <2>5, <2>7, <2>8 DEF COwned, CompletedOnce
<1>5. QED
  BY <1>2, <1>3, <1>4 DEF Respond

LEMMA COwnedInit == Init => COwned
<1> SUFFICES ASSUME Init PROVE COwned
  OBVIOUS
<1>1. ZeroMessage \in Message /\ ZeroMessage.content = None
  BY DEF ZeroMessage, Message, Statuses
<1>2. TypeOK
  <2>1. pending \in Message /\ ctx \in [message : Message, retries : Nat, nextRetry : Nat]
    BY <1>1 DEF Init, EmptyCtx
  <2>2. answered \in [for : Msgs \cup {None}, to : Msgs \cup {None}]
    BY DEF Init, NoAnswer
  <2>3. now \in 0..MaxTime /\ inits \in 0..MaxInits /\ completions \in [Msgs -> Nat]
    BY DEF Init
  <2>4. QED
    BY <2>1, <2>2, <2>3 DEF Init, TypeOK
<1>3. CompletedOnce /\ ContentsOwned
  BY <1>1 DEF Init, CompletedOnce, ContentsOwned, EmptyCtx
<1>4. QED
  BY <1>2, <1>3 DEF COwned

LEMMA COwnedStep == COwned /\ [Next]_vars => COwned'
<1> SUFFICES ASSUME COwned, [Next]_vars PROVE COwned'
  OBVIOUS
<1>1. CASE UNCHANGED vars
  BY <1>1 DEF vars, COwned, TypeOK, CompletedOnce, ContentsOwned
<1>2. QED
  BY <1>1, InitOwned, UninitOwned, SendAsyncOwned, SetTransportOwned,
     ProcessMessageOwned, RespondOwned, TickOwned DEF Next

(* Every message is completed at most once: for every set of messages,     *)
(* status codes, delays and number of Init calls, no interleaving of       *)
(* SendAsync, DoWork, the transport, the reported-state callback and       *)
(* Uninit runs OnMessageProcessingCompleted (completedCallback and free)   *)
(* twice on one content.                                                   *)
THEOREM CompletedOnceProved == Spec => []CompletedOnce
<1>1. COwned => CompletedOnce
  BY DEF COwned
<1>2. QED
  BY <1>1, COwnedInit, COwnedStep, PTL DEF Spec

(* What ResponseMatches rests on, with the ownership invariant. *)
ROwned == COwned /\ RequestsOwned /\ ResponseMatches

LEMMA ROwnedInit == Init => ROwned
<1> SUFFICES ASSUME Init PROVE ROwned
  OBVIOUS
<1>1. COwned
  BY COwnedInit
<1>2. RequestsOwned /\ ResponseMatches
  BY DEF Init, RequestsOwned, ResponseMatches, NoAnswer
<1>3. QED
  BY <1>1, <1>2 DEF ROwned

(* A request still owed an answer is never left with a context that holds *)
(* another message: ProcessMessage only sends when nothing is owed, and a *)
(* response answers the one request owed.  With one Init, the mutex that  *)
(* Uninit destroys never comes back.                                       *)
LEMMA ROwnedStep ==
  ASSUME MaxInits <= 1, ROwned, [Next]_vars
  PROVE  ROwned'
<1>1. COwned'
  BY COwnedStep DEF ROwned
<1>2. inflight \subseteq Msgs /\ None \notin Msgs /\ inits \in Nat
  BY DEF ROwned, COwned, TypeOK
<1> USE DEF ROwned
<1>3. CASE Init_D2C
  <2>1. inits = 0 /\ inflight = {}
    BY <1>2, <1>3 DEF Init_D2C, RequestsOwned
  <2>2. QED
    BY <1>1, <1>3, <2>1 DEF Init_D2C, RequestsOwned, ResponseMatches
<1>4. CASE Uninit
  <2>1. inits >= MaxInits
    BY <1>2, <1>4 DEF Uninit, RequestsOwned
  <2>2. QED
    BY <1>1, <1>4, <2>1 DEF Uninit, RequestsOwned, ResponseMatches
<1>5. CASE \E m \in Msgs, cc, rc \in BOOLEAN : SendAsync(m, cc, rc)
  BY <1>1, <1>5 DEF SendAsync, RequestsOwned, ResponseMatches
<1>6. CASE \E f \in {"default", "null"} : SetTransport(f)
  BY <1>1, <1>6 DEF SetTransport, RequestsOwned, ResponseMatches
<1>7. CASE Tick
  BY <1>1, <1>7 DEF Tick, RequestsOwned, ResponseMatches
<1>8. CASE ProcessMessage
  <2>1. mutexAlive
    BY <1>8 DEF ProcessMessage, RequestsOwned
  <2>2. ~(ctx.message.content # None /\ ctx.message.status = "Waiting_For_Response")
    BY <1>8 DEF ProcessMessage, ReplaceAllowed, RetryDue
  <2>3. inflight = {}
    BY <1>2, <2>1, <2>2 DEF RequestsOwned
  <2>4. \E c \in [message : Message, retries : Nat, nextRetry : Nat] :
          /\ \/ ctx' = [c EXCEPT !.nextRetry = @ + FatalWait] /\ UNCHANGED inflight
             \/ /\ ctx' = [c EXCEPT !.message.status = "Waiting_For_Response"]
                /\ inflight' = inflight \cup {c.message.content}
             \/ /\ ctx' = [[c EXCEPT !.nextRetry = @ + FatalWait] EXCEPT !.message =
                             OnMessageProcessingCompleted(c.message, "Failed")]
                /\ UNCHANGED inflight
    <3>1. [message   |-> SetMessageStatus(pending, "In_Progress"),
           retries   |-> 0,
           nextRetry |-> now] \in [message : Message, retries : Nat, nextRetry : Nat]
      BY DEF COwned, TypeOK, SetMessageStatus, Message, Statuses
    <3>2. ctx \in [message : Message, retries : Nat, nextRetry : Nat]
      BY DEF COwned, TypeOK
    <3>3. QED
      BY <1>8, <3>1, <3>2 DEF ProcessMessage, Send
  <2>5. PICK c \in [message : Message, retries : Nat, nextRetry : Nat] :
          /\ \/ ctx' = [c EXCEPT !.nextRetry = @ + FatalWait] /\ UNCHANGED inflight
             \/ /\ ctx' = [c EXCEPT !.message.status = "Waiting_For_Response"]
                /\ inflight' = inflight \cup {c.message.content}
             \/ /\ ctx' = [[c EXCEPT !.nextRetry = @ + FatalWait] EXCEPT !.message =
                             OnMessageProcessingCompleted(c.message, "Failed")]
                /\ UNCHANGED inflight
    BY <2>4
  <2>6. RequestsOwned'
    <3>1. UNCHANGED <<initialized, mutexAlive, inits>>
      BY <1>8 DEF ProcessMessage
    <3>2. \A r \in inflight' : ctx'.message.content = r
                               /\ ctx'.message.status = "Waiting_For_Response"
      BY <2>3, <2>5 DEF Message
    <3>3. QED
      BY <2>1, <2>3, <3>1, <3>2 DEF RequestsOwned
  <2>7. QED
    BY <1>1, <1>8, <2>6 DEF ProcessMessage, ResponseMatches
<1>9. CASE \E r \in Msgs, code \in HttpCodes : Respond(r, code)
  <2>1. PICK r \in Msgs, code \in HttpCodes : Respond(r, code)
    BY <1>9
  <2>2. UNCHANGED <<initialized, mutexAlive, inits>> /\ inflight' = inflight \ {r}
    BY <2>1 DEF Respond
  <2>3. CASE ~mutexAlive
    BY <1>1, <2>1, <2>2, <2>3 DEF Respond, RequestsOwned, ResponseMatches
  <2>4. CASE mutexAlive /\ ctx.message.content = None
    BY <1>2, <2>1, <2>4 DEF Respond, RequestsOwned
  <2>5. CASE mutexAlive /\ ctx.message.content # None
    <3>1. ctx.message.content = r /\ inflight = {r}
      BY <1>2, <2>1, <2>5 DEF Respond, RequestsOwned
    <3>2. answered' = [for |-> r, to |-> r]
      BY <2>1, <2>5, <3>1 DEF Respond
    <3>3. QED
      BY <1>1, <2>2, <3>1, <3>2 DEF RequestsOwned, ResponseMatches
  <2>6. QED
    BY <2>3, <2>4, <2>5
<1>10. CASE UNCHANGED vars
  BY <1>1, <1>10 DEF vars, RequestsOwned, ResponseMatches
<1>11. QED
  BY <1>3, <1>4, <1>5, <1>6, <1>7, <1>8, <1>9, <1>10 DEF Next

(* When the agent calls ADUC_D2C_Messaging_Init once, a reported-state     *)
(* response is always applied to the message whose request it answers,    *)
(* for every set of messages, status codes and delays.  (With a second     *)
(* Init a response to a request from before Uninit reaches the new         *)
(* context, so the hypothesis is needed.)                                  *)
THEOREM ResponseMatchesProved ==
  ASSUME MaxInits <= 1
  PROVE  Spec => []ResponseMatches
<1>1. ROwned => ResponseMatches
  BY DEF ROwned
<1>2. ROwned /\ [Next]_vars => ROwned'
  BY ROwnedStep
<1>3. QED
  BY <1>1, <1>2, ROwnedInit, PTL DEF Spec

(* The inductive invariant the d2c run checks holds in every reachable     *)
(* state under the same hypothesis.                                        *)
THEOREM D2CIInvProved ==
  ASSUME MaxInits <= 1
  PROVE  Spec => []D2CIInv
<1>1. ROwned => D2CIInv
  BY DEF ROwned, COwned, D2CIInv
<1>2. ROwned /\ [Next]_vars => ROwned'
  BY ROwnedStep
<1>3. QED
  BY <1>1, <1>2, ROwnedInit, PTL DEF Spec
==============================================================================
