----------------------- MODULE DiffusionServingProofs -----------------------
(***************************************************************************)
(* Proofs about DiffusionServing, for every set of requests, clients and   *)
(* tokens and every batch size: the state is well typed, no request is     *)
(* lost or duplicated, the engine serves in order of arrival, and revealed *)
(* tokens are final.  Then what the engine does to the text of a request,  *)
(* block by block, what its caller receives, and what can bring it down.   *)
(***************************************************************************)
EXTENDS DiffusionServing, FiniteSetTheorems, TLAPS

-----------------------------------------------------------------------------
(* Lemmas about the operators of a step.                                   *)

LEMMA NumBlocksPositive ==
  ASSUME NEW p \in Params
  PROVE  /\ NumBlocks(p) \in Nat \ {0}
         /\ StepsPerBlock(p) \in Nat \ {0}
<1>1. p.steps \in Nat /\ p.gen_length \in Nat /\ p.block_length \in Nat
  BY DEF Params
<1>2. AtLeastOne(p.block_length) \in Nat \ {0}
  BY <1>1 DEF AtLeastOne
<1>3. p.gen_length \div AtLeastOne(p.block_length) \in Nat
  BY <1>1, <1>2
<1>4. NumBlocks(p) \in Nat \ {0}
  BY <1>3 DEF NumBlocks, AtLeastOne
<1>5. p.steps \div NumBlocks(p) \in Nat
  BY <1>1, <1>4
<1>6. QED
  BY <1>4, <1>5 DEF StepsPerBlock, AtLeastOne

(* A new runtime state is the prompt followed by masks.                    *)
LEMMA InitialStateType ==
  ASSUME NEW r \in ReqId, requests \in [ReqId -> Request]
  PROVE  InitialState(r) \in DiffusionRuntimeState
<1> DEFINE prompt == requests[r].input_token_ids
           p == requests[r].params
           n == Len(prompt) + p.gen_length
           x == [i \in 1 .. n |-> IF i <= Len(prompt) THEN prompt[i] ELSE MaskId]
<1>1. prompt \in Seq(PromptToken \cup {MaskId}) /\ p \in Params
  BY DEF Request
<1>2. Len(prompt) \in Nat /\ p.gen_length \in Nat /\ n \in Nat
  BY <1>1 DEF Params
<1>3. \A i \in 1 .. n : (IF i <= Len(prompt) THEN prompt[i] ELSE MaskId) \in Token
  BY <1>1, <1>2 DEF Token
<1>4. x \in Seq(Token) /\ Len(x) = n
  <2>1. x \in [1 .. n -> Token]
    BY <1>3
  <2>2. QED
    BY <2>1, <1>2
<1>5. InitialState(r) = [x |-> x, prompt_len |-> Len(prompt), total_len |-> n,
                         params |-> p, block_idx |-> 0, step_idx_in_block |-> 0]
  BY DEF InitialState
<1>6. QED
  BY <1>1, <1>2, <1>4, <1>5 DEF DiffusionRuntimeState

(* A step rewrites masked positions of the current block and nothing else. *)
LEMMA NewTextsFacts ==
  ASSUME NEW st \in DiffusionRuntimeState, NEW y \in NewTexts(st)
  PROVE  /\ y \in Seq(Token)
         /\ Len(y) = Len(st.x)
         /\ \A i \in 1 .. Len(st.x) :
              y[i] # st.x[i] => i \in Block(st) /\ st.x[i] = MaskId
<1>1. PICK sel \in Transfers(st) : \E tok \in [sel -> Vocab] :
         y = [i \in DOMAIN st.x |-> IF i \in sel THEN tok[i] ELSE st.x[i]]
  BY DEF NewTexts
<1>a. PICK tok \in [sel -> Vocab] :
         y = [i \in DOMAIN st.x |-> IF i \in sel THEN tok[i] ELSE st.x[i]]
  BY <1>1
<1>2. \A i \in sel : i \in Block(st) /\ st.x[i] = MaskId
  BY DEF Transfers, MaskedIn
<1>3. st.x \in Seq(Token) /\ Len(st.x) \in Nat /\ DOMAIN st.x = 1 .. Len(st.x)
  BY DEF DiffusionRuntimeState
<1>4. y \in [1 .. Len(st.x) -> Token]
  BY <1>a, <1>3 DEF Token
<1>5. y \in Seq(Token) /\ Len(y) = Len(st.x)
  BY <1>3, <1>4
<1>6. QED
  BY <1>a, <1>2, <1>3, <1>5

(* What Advance leaves alone, and where the pointers go.                   *)
LEMMA AdvanceFields ==
  ASSUME NEW st \in DiffusionRuntimeState, NEW y
  PROVE  LET wrap == st.step_idx_in_block + 1 >= StepsPerBlock(st.params)
         IN  Advance(st, y) =
               [x |-> y, prompt_len |-> st.prompt_len, total_len |-> st.total_len,
                params |-> st.params,
                block_idx |-> IF wrap THEN st.block_idx + 1 ELSE st.block_idx,
                step_idx_in_block |->
                  IF wrap THEN 0 ELSE st.step_idx_in_block + 1]
<1> DEFINE wrap == st.step_idx_in_block + 1 >= StepsPerBlock(st.params)
           s == IF wrap THEN 0 ELSE st.step_idx_in_block + 1
           b == IF wrap THEN st.block_idx + 1 ELSE st.block_idx
<1>1. st \in [x : Seq(Token), prompt_len : Nat, total_len : Nat, params : Params,
              block_idx : Nat, step_idx_in_block : Nat]
  BY DEF DiffusionRuntimeState
<1>2. Advance(st, y) = [st EXCEPT !.x = y, !.step_idx_in_block = s, !.block_idx = b]
  BY DEF Advance
<1> HIDE DEF s, b
<1>3. Advance(st, y) =
        [x |-> y, prompt_len |-> st.prompt_len, total_len |-> st.total_len,
         params |-> st.params, block_idx |-> b, step_idx_in_block |-> s]
  BY <1>1, <1>2, Zenon
<1>4. QED
  BY <1>3 DEF s, b

LEMMA AdvanceType ==
  ASSUME NEW st \in DiffusionRuntimeState, NEW y \in NewTexts(st)
  PROVE  Advance(st, y) \in DiffusionRuntimeState
<1> DEFINE wrap == st.step_idx_in_block + 1 >= StepsPerBlock(st.params)
           s == IF wrap THEN 0 ELSE st.step_idx_in_block + 1
           b == IF wrap THEN st.block_idx + 1 ELSE st.block_idx
<1>1. y \in Seq(Token) /\ Len(y) = Len(st.x)
  BY NewTextsFacts
<1>2. /\ st.block_idx \in Nat /\ st.step_idx_in_block \in Nat
      /\ st.prompt_len \in Nat /\ st.total_len \in Nat /\ st.params \in Params
      /\ st.total_len = st.prompt_len + st.params.gen_length
      /\ Len(st.x) = st.total_len
  BY DEF DiffusionRuntimeState
<1>3. s \in Nat /\ b \in Nat
  BY <1>2
<1>4. Advance(st, y) =
        [x |-> y, prompt_len |-> st.prompt_len, total_len |-> st.total_len,
         params |-> st.params, block_idx |-> b, step_idx_in_block |-> s]
  BY AdvanceFields
<1> HIDE DEF s, b
<1>5. QED
  BY <1>1, <1>2, <1>3, <1>4 DEF DiffusionRuntimeState

(* The generated part of a text is a sequence of gen_length tokens.        *)
LEMMA TailType ==
  ASSUME NEW st \in DiffusionRuntimeState
  PROVE  Tail_token_ids(st) \in Seq(Token)
<1>1. /\ st.x \in Seq(Token) /\ st.prompt_len \in Nat
      /\ st.params.gen_length \in Nat
      /\ Len(st.x) = st.prompt_len + st.params.gen_length
  BY DEF DiffusionRuntimeState, Params
<1>2. Tail_token_ids(st) \in [1 .. st.params.gen_length -> Token]
  BY <1>1 DEF Tail_token_ids
<1>3. QED
  BY <1>1, <1>2

LEMMA PutType ==
  ASSUME NEW S, NEW D, NEW f \in [D -> S], NEW k, NEW v \in S
  PROVE  /\ Put(f, k, v) \in [D \cup {k} -> S]
         /\ DOMAIN Put(f, k, v) = D \cup {k}
         /\ Put(f, k, v)[k] = v
         /\ \A d \in D : d # k => Put(f, k, v)[d] = f[d]
BY DEF Put

LEMMA RemoveAtType ==
  ASSUME NEW S, NEW s \in Seq(S), NEW h \in 1 .. Len(s)
  PROVE  RemoveAt(s, h) \in Seq(S)
<1>1. SubSeq(s, 1, h - 1) \in Seq(S)
  OBVIOUS
<1>2. SubSeq(s, h + 1, Len(s)) \in Seq(S)
  OBVIOUS
<1>3. QED
  BY <1>1, <1>2 DEF RemoveAt

-----------------------------------------------------------------------------
(* Type correctness.                                                       *)

LEMMA TypeInit == Init => TypeOK
<1> SUFFICES ASSUME Init PROVE TypeOK
  OBVIOUS
<1>1. requests \in [ReqId -> Request] /\ pool_ready \in BOOLEAN
  BY RequestChoiceAssumption, PoolChoiceAssumption DEF Init
<1>2. /\ waiting \in Seq(ReqId) /\ running \in Seq(ReqId)
      /\ emitted \in Seq(ReqId) /\ input_queue \in Seq(Message)
  BY DEF Init, SchedInit
<1>3. DOMAIN states = {} /\ states \in [{} -> DiffusionRuntimeState]
  BY DEF Init, SchedInit
<1>4. /\ output_queue \in [Client -> Seq(OutputMessage)]
      /\ received \in [ReqId -> Seq(Token)]
  BY DEF Init
<1>5. /\ engine_dead \in [Client -> BOOLEAN]
      /\ client \in [ReqId -> Status]
      /\ pc \in {"input", "step", "dead"} /\ finished_req_ids \subseteq ReqId
  BY DEF Init, SchedInit, Status
<1>6. QED
  BY <1>1, <1>2, <1>3, <1>4, <1>5 DEF TypeOK

(* What the head of the input queue is.                                    *)
LEMMA InputHead ==
  ASSUME TypeOK, input_queue # <<>>
  PROVE  /\ Head(input_queue) \in Message
         /\ Head(input_queue).req_id \in ReqId
         /\ Tail(input_queue) \in Seq(Message)
<1>1. Head(input_queue) \in Message /\ Tail(input_queue) \in Seq(Message)
  BY DEF TypeOK
<1>2. QED
  BY <1>1 DEF Message

LEMMA DieType == TypeOK /\ Die => TypeOK'
<1> SUFFICES ASSUME TypeOK, Die PROVE TypeOK'
  OBVIOUS
<1>1. ENGINE_CORE_DEAD \in OutputMessage
  BY DEF OutputMessage
<1>2. \A c \in Client : Append(output_queue[c], ENGINE_CORE_DEAD) \in Seq(OutputMessage)
  BY <1>1 DEF TypeOK
<1>3. output_queue' \in [Client -> Seq(OutputMessage)]
  BY <1>2 DEF Die
<1>4. QED
  BY <1>3 DEF TypeOK, Die, schedVars, clientVars

(* The state of the batch head and the text it may get.                    *)
LEMMA StepType ==
  ASSUME TypeOK, NEW h \in Batch, NEW new_x \in NewTexts(states[running[h]]),
         ExecuteDiffusionOnce(h, new_x)
  PROVE  TypeOK'
<1> DEFINE r == running[h]
           st == Advance(states[r], new_x)
<1>1. h \in 1 .. Len(running) /\ r \in DOMAIN states /\ r \in ReqId
  BY DEF Batch, TypeOK
<1>2. states[r] \in DiffusionRuntimeState
  BY <1>1 DEF TypeOK
<1>3. st \in DiffusionRuntimeState
  BY <1>2, AdvanceType
<1>4. /\ DOMAIN states' \subseteq ReqId
      /\ states' \in [DOMAIN states' -> DiffusionRuntimeState]
  <2>1. states' = Put(states, r, st)
    BY DEF ExecuteDiffusionOnce, apply_update
  <2>2. states \in [DOMAIN states -> DiffusionRuntimeState] /\ DOMAIN states \subseteq ReqId
    BY DEF TypeOK
  <2> HIDE DEF st
  <2>3. /\ Put(states, r, st) \in [DOMAIN states \cup {r} -> DiffusionRuntimeState]
        /\ DOMAIN Put(states, r, st) = DOMAIN states \cup {r}
    BY <1>3, <2>2 DEF Put
  <2>4. QED
    BY <1>1, <2>1, <2>2, <2>3
<1>5. Tail_token_ids(st) \in Seq(Token)
  BY <1>3, TailType
<1>6. Output(r, Tail_token_ids(st)) \in OutputMessage
  BY <1>1, <1>5 DEF Output, OutputMessage
<1>7. output_queue' \in [Client -> Seq(OutputMessage)]
  <2>1. CASE Finished(st)
    <3>1. output_queue' = [output_queue EXCEPT ![Client0] =
             Append(output_queue[Client0], Output(r, Tail_token_ids(st)))]
      BY <2>1 DEF ExecuteDiffusionOnce
    <3>2. Append(output_queue[Client0], Output(r, Tail_token_ids(st)))
            \in Seq(OutputMessage)
      BY <1>6, ClientAssumption DEF TypeOK
    <3>3. QED
      BY <3>1, <3>2, Zenon DEF TypeOK
  <2>2. CASE ~Finished(st)
    BY <2>2 DEF ExecuteDiffusionOnce, TypeOK
  <2>3. QED
    BY <2>1, <2>2
<1>8. emitted' \in Seq(ReqId)
  <2>1. emitted' = Append(emitted, r) \/ emitted' = emitted
    BY DEF ExecuteDiffusionOnce
  <2>2. emitted \in Seq(ReqId)
    BY DEF TypeOK
  <2> HIDE DEF r
  <2>3. Append(emitted, r) \in Seq(ReqId)
    BY <1>1, <2>2
  <2>4. QED
    BY <2>1, <2>2, <2>3
<1>9. running' \in Seq(ReqId) /\ finished_req_ids' \subseteq ReqId
  BY <1>1, RemoveAtType DEF ExecuteDiffusionOnce, apply_update, TypeOK
<1>10. QED
  BY <1>4, <1>7, <1>8, <1>9, Zenon
     DEF TypeOK, ExecuteDiffusionOnce, apply_update, clientVars

LEMMA TypeNext == TypeOK /\ [Next]_vars => TypeOK'
<1> SUFFICES ASSUME TypeOK, [Next]_vars PROVE TypeOK'
  OBVIOUS
<1>1. ASSUME NEW r \in ReqId, Submit(r) PROVE TypeOK'
  <2>1. Add(r) \in Message
    BY DEF Add, Message
  <2>2. input_queue' \in Seq(Message)
    <3>1. input_queue \in Seq(Message)
      BY DEF TypeOK
    <3>2. Append(input_queue, Add(r)) \in Seq(Message)
      BY <2>1, <3>1
    <3>3. QED
      BY <1>1, <3>1, <3>2 DEF Submit
  <2>3. client' \in [ReqId -> Status]
    BY <1>1, Zenon DEF Submit, TypeOK, Status
  <2>4. QED
    BY <1>1, <2>2, <2>3 DEF Submit, TypeOK, schedVars
<1>2. ASSUME NEW r \in ReqId, Cancel(r) PROVE TypeOK'
  <2>1. Abort(r) \in Message
    BY DEF Abort, Message
  <2>2. input_queue' \in Seq(Message)
    <3>1. input_queue \in Seq(Message)
      BY DEF TypeOK
    <3>2. Append(input_queue, Abort(r)) \in Seq(Message)
      BY <2>1, <3>1
    <3>3. QED
      BY <1>2, <3>1, <3>2 DEF Cancel
  <2>3. client' \in [ReqId -> Status]
    BY <1>2 DEF Cancel, TypeOK, Status
  <2>4. QED
    BY <1>2, <2>2, <2>3 DEF Cancel, TypeOK, schedVars
<1>3. ASSUME NEW c \in Client, ProcessOutput(c) PROVE TypeOK'
  <2> DEFINE m == Head(output_queue[c])
  <2>1. /\ output_queue \in [Client -> Seq(OutputMessage)]
        /\ output_queue[c] \in Seq(OutputMessage) /\ output_queue[c] # <<>>
    BY <1>3 DEF ProcessOutput, TypeOK
  <2>2. m \in OutputMessage /\ Tail(output_queue[c]) \in Seq(OutputMessage)
    BY <2>1
  <2>3. output_queue' \in [Client -> Seq(OutputMessage)]
    BY <1>3, <2>1, <2>2 DEF ProcessOutput
  <2>4. /\ engine_dead' \in [Client -> BOOLEAN]
        /\ client' \in [ReqId -> Status]
        /\ received' \in [ReqId -> Seq(Token)]
    <3>1. CASE m.type = "OUTPUT"
      <4>1. m.req_id \in ReqId /\ m.tail \in Seq(Token)
        BY <2>2, <3>1 DEF OutputMessage, ENGINE_CORE_DEAD
      <4>2. process_outputs(c, m.req_id, m.tail) /\ engine_dead' = engine_dead
        BY <1>3, <3>1 DEF ProcessOutput
      <4>3. QED
        BY <4>1, <4>2 DEF process_outputs, TypeOK, Status
    <3>2. CASE m.type = "DEAD"
      <4>1. propagate_error(c) /\ received' = received
        BY <1>3, <3>2 DEF ProcessOutput
      <4>2. QED
        BY <4>1 DEF propagate_error, TypeOK, Status
    <3>3. QED
      BY <1>3, <3>1, <3>2 DEF ProcessOutput
  <2>5. QED
    BY <1>3, <2>3, <2>4 DEF ProcessOutput, TypeOK, schedVars
<1>4. CASE HandleAdd
  <2> DEFINE r == Head(input_queue).req_id
  <2>1. r \in ReqId /\ input_queue' \in Seq(Message)
    BY <1>4, InputHead DEF HandleAdd
  <2>2. InitialState(r) \in DiffusionRuntimeState
    BY <2>1, InitialStateType DEF TypeOK
  <2>3. states' = Put(states, r, InitialState(r)) /\ waiting' = Append(waiting, r)
    BY <1>4 DEF HandleAdd, add_request
  <2> HIDE DEF r
  <2>4. /\ DOMAIN states' \subseteq ReqId
        /\ states' \in [DOMAIN states' -> DiffusionRuntimeState]
    BY <2>1, <2>2, <2>3 DEF TypeOK, Put
  <2>5. waiting' \in Seq(ReqId)
    BY <2>1, <2>3 DEF TypeOK
  <2>6. QED
    BY <1>4, <2>1, <2>4, <2>5 DEF HandleAdd, add_request, TypeOK, clientVars
<1>5. CASE HandleAbort
  <2>1. input_queue' \in Seq(Message)
    BY <1>5, InputHead DEF HandleAbort
  <2>2. QED
    BY <1>5, <2>1 DEF HandleAbort, TypeOK, schedVars, clientVars
<1>6. CASE BeginStep
  BY <1>6 DEF BeginStep, TypeOK, schedVars, clientVars
<1>7. CASE Migrate
  <2> DEFINE r == Head(waiting)
  <2>1. r \in ReqId /\ waiting' \in Seq(ReqId)
    BY <1>7 DEF Migrate, migrate_one, TypeOK
  <2>2. InitialState(r) \in DiffusionRuntimeState
    BY <2>1, InitialStateType DEF TypeOK
  <2>3. states' = states \/ states' = Put(states, r, InitialState(r))
    BY <1>7 DEF Migrate, migrate_one
  <2>4. running' = running \/ running' = Append(running, r)
    BY <1>7 DEF Migrate, migrate_one
  <2> HIDE DEF r
  <2>5. /\ DOMAIN states' \subseteq ReqId
        /\ states' \in [DOMAIN states' -> DiffusionRuntimeState]
    BY <2>1, <2>2, <2>3, Zenon DEF TypeOK, Put
  <2>6. running' \in Seq(ReqId)
    <3>1. running \in Seq(ReqId)
      BY DEF TypeOK
    <3>2. Append(running, r) \in Seq(ReqId)
      BY <2>1, <3>1
    <3>3. QED
      BY <2>4, <3>1, <3>2
  <2>7. QED
    BY <1>7, <2>1, <2>5, <2>6 DEF Migrate, migrate_one, TypeOK, clientVars
<1>8. CASE MigrateRaises
  BY <1>8, DieType DEF MigrateRaises
<1>9. CASE Step
  <2>1. PICK h \in Batch : \E new_x \in NewTexts(states[running[h]]) :
          ExecuteDiffusionOnce(h, new_x)
    BY <1>9 DEF Step
  <2>2. QED
    BY <2>1, StepType
<1>10. CASE StepRaises
  BY <1>10, DieType DEF StepRaises
<1>11. CASE UNCHANGED vars \/ Idle
  BY <1>11 DEF vars, Idle, TypeOK, schedVars, clientVars
<1>12. QED
  BY <1>1, <1>2, <1>3, <1>4, <1>5, <1>6, <1>7, <1>8, <1>9, <1>10, <1>11
     DEF Next, Main

(* Every reachable state of the serving system is well typed: in           *)
(* particular every runtime state the scheduler keeps has a text of        *)
(* prompt_len + gen_length tokens, whatever the requests and the network.  *)
THEOREM TypeCorrect == Spec => []TypeOK
<1>1. QED
  BY TypeInit, TypeNext, PTL DEF Spec

-----------------------------------------------------------------------------
(* Sequences.                                                              *)

(* Moving the head of t to the end of s does not change s \o t.            *)
LEMMA MoveHead ==
  ASSUME NEW S, NEW s \in Seq(S), NEW t \in Seq(S), t # <<>>
  PROVE  Append(s, Head(t)) \o Tail(t) = s \o t
<1>1. t = <<Head(t)>> \o Tail(t) /\ Head(t) \in S /\ Tail(t) \in Seq(S)
  OBVIOUS
<1>2. Append(s, Head(t)) = s \o <<Head(t)>> /\ <<Head(t)>> \in Seq(S)
  BY <1>1
<1>3. (s \o <<Head(t)>>) \o Tail(t) = s \o (<<Head(t)>> \o Tail(t))
  BY <1>1, <1>2
<1>4. QED
  BY <1>1, <1>2, <1>3

LEMMA RangeAppend ==
  ASSUME NEW S, NEW s \in Seq(S), NEW e \in S
  PROVE  /\ Range(Append(s, e)) = Range(s) \cup {e}
         /\ IsInjective(s) /\ e \notin Range(s) => IsInjective(Append(s, e))
<1>1. /\ Append(s, e) \in Seq(S) /\ Len(Append(s, e)) = Len(s) + 1
      /\ \A i \in 1 .. Len(s) : Append(s, e)[i] = s[i]
      /\ Append(s, e)[Len(s) + 1] = e
      /\ DOMAIN s = 1 .. Len(s) /\ DOMAIN Append(s, e) = 1 .. Len(s) + 1
      /\ Len(s) \in Nat
  OBVIOUS
<1> DEFINE t == Append(s, e)
<1> HIDE DEF t
<1>2. \A i \in DOMAIN t : i \in DOMAIN s \/ i = Len(s) + 1
  BY <1>1 DEF t
<1>3. QED
  BY <1>1, <1>2 DEF Range, IsInjective, t

LEMMA RangeConcat ==
  ASSUME NEW S, NEW s \in Seq(S), NEW t \in Seq(S)
  PROVE  /\ Range(s \o t) = Range(s) \cup Range(t)
         /\ IsInjective(s \o t) =>
              IsInjective(s) /\ IsInjective(t) /\ Range(s) \cap Range(t) = {}
<1>1. /\ s \o t \in Seq(S) /\ Len(s) \in Nat /\ Len(t) \in Nat
      /\ Len(s \o t) = Len(s) + Len(t)
      /\ DOMAIN (s \o t) = 1 .. (Len(s) + Len(t))
      /\ DOMAIN s = 1 .. Len(s) /\ DOMAIN t = 1 .. Len(t)
      /\ \A i \in 1 .. Len(s) : (s \o t)[i] = s[i]
      /\ \A i \in 1 .. Len(t) : (s \o t)[Len(s) + i] = t[i]
  OBVIOUS
<1>2. Range(s \o t) = Range(s) \cup Range(t)
  <2>1. \A i \in DOMAIN (s \o t) :
          i \in 1 .. Len(s) \/ \E j \in 1 .. Len(t) : i = Len(s) + j
    <3>1. ASSUME NEW i \in DOMAIN (s \o t), i \notin 1 .. Len(s)
          PROVE  i - Len(s) \in 1 .. Len(t) /\ i = Len(s) + (i - Len(s))
      BY <1>1, <3>1
    <3>2. QED
      BY <3>1, Zenon
  <2>2. /\ \A i \in 1 .. Len(s) : i \in DOMAIN (s \o t)
        /\ \A j \in 1 .. Len(t) : Len(s) + j \in DOMAIN (s \o t)
    BY <1>1
  <2>3. ASSUME NEW i \in DOMAIN (s \o t) PROVE (s \o t)[i] \in Range(s) \cup Range(t)
    <3>1. CASE i \in 1 .. Len(s)
      BY <1>1, <3>1, Zenon DEF Range
    <3>2. CASE \E j \in 1 .. Len(t) : i = Len(s) + j
      BY <1>1, <3>2, Zenon DEF Range
    <3>3. QED
      BY <2>1, <3>1, <3>2, Zenon
  <2>4. \A i \in DOMAIN s : s[i] \in Range(s \o t)
    BY <1>1, <2>2, Zenon DEF Range
  <2>5. \A j \in DOMAIN t : t[j] \in Range(s \o t)
    BY <1>1, <2>2, Zenon DEF Range
  <2>6. QED
    BY <2>3, <2>4, <2>5, Zenon DEF Range
<1>3. ASSUME IsInjective(s \o t)
      PROVE  IsInjective(s) /\ IsInjective(t) /\ Range(s) \cap Range(t) = {}
  <2>1. \A i, j \in DOMAIN (s \o t) : (s \o t)[i] = (s \o t)[j] => i = j
    BY <1>3 DEF IsInjective
  <2>2. IsInjective(s)
    BY <1>1, <2>1 DEF IsInjective
  <2>3. IsInjective(t)
    <3>1. \A i \in 1 .. Len(t) :
            Len(s) + i \in DOMAIN (s \o t) /\ t[i] = (s \o t)[Len(s) + i]
      BY <1>1
    <3>2. \A i, j \in 1 .. Len(t) : t[i] = t[j] => Len(s) + i = Len(s) + j
      BY <2>1, <3>1, Zenon
    <3>3. QED
      BY <1>1, <3>2 DEF IsInjective
  <2>4. \A i \in 1 .. Len(s), j \in 1 .. Len(t) : s[i] # t[j]
    <3>1. \A i \in 1 .. Len(s), j \in 1 .. Len(t) :
            /\ i \in DOMAIN (s \o t) /\ Len(s) + j \in DOMAIN (s \o t)
            /\ i # Len(s) + j
      BY <1>1
    <3>2. QED
      BY <1>1, <2>1, <3>1, Zenon
  <2>5. QED
    BY <1>1, <2>2, <2>3, <2>4 DEF Range
<1>4. QED
  BY <1>2, <1>3

LEMMA ConcatAppend ==
  ASSUME NEW S, NEW s \in Seq(S), NEW t \in Seq(S), NEW e \in S
  PROVE  s \o Append(t, e) = Append(s \o t, e)
<1>1. <<e>> \in Seq(S) /\ s \o t \in Seq(S)
  OBVIOUS
<1>2. Append(t, e) = t \o <<e>> /\ Append(s \o t, e) = (s \o t) \o <<e>>
  BY <1>1
<1>3. QED
  BY <1>1, <1>2

LEMMA ConcatHeadTail ==
  ASSUME NEW S, NEW s \in Seq(S), NEW t \in Seq(S), s # <<>>
  PROVE  s \o t # <<>> /\ Head(s \o t) = Head(s) /\ Tail(s \o t) = Tail(s) \o t
<1>1. s = <<Head(s)>> \o Tail(s) /\ Head(s) \in S /\ Tail(s) \in Seq(S)
  OBVIOUS
<1>2. <<Head(s)>> \in Seq(S) /\ Tail(s) \o t \in Seq(S)
  BY <1>1
<1>3. s \o t = <<Head(s)>> \o (Tail(s) \o t)
  BY <1>1, <1>2
<1>4. QED
  BY <1>1, <1>2, <1>3

LEMMA RemoveFirstIsTail ==
  ASSUME NEW S, NEW s \in Seq(S), s # <<>>
  PROVE  RemoveAt(s, 1) = Tail(s)
<1>1. SubSeq(s, 1, 0) = <<>>
  OBVIOUS
<1>2. SubSeq(s, 2, Len(s)) = Tail(s) /\ Tail(s) \in Seq(S)
  OBVIOUS
<1>3. QED
  BY <1>1, <1>2 DEF RemoveAt

-----------------------------------------------------------------------------
(* Where the requests are.  The code keeps more than Conservation asks     *)
(* for: an aborted request stays with the scheduler like any other.        *)
AllKept ==
  /\ IsInjective(Accepted)
  /\ \A i, j \in PendingAdds :
       input_queue[i].req_id = input_queue[j].req_id => i = j
  /\ \A i \in PendingAdds : input_queue[i].req_id \notin Range(Accepted)
  /\ \A r \in ReqId :
       client[r] \notin {"new", "rejected"} <=>
         \/ r \in Range(Accepted)
         \/ \E i \in PendingAdds : input_queue[i].req_id = r
  /\ DOMAIN states = Range(Accepted)

-----------------------------------------------------------------------------
(* How the steps move requests along emitted, running and waiting.         *)

LEMMA AcceptedFacts ==
  ASSUME TypeOK
  PROVE  /\ Accepted \in Seq(ReqId)
         /\ Accepted = emitted \o (running \o waiting)
         /\ running \o waiting \in Seq(ReqId)
         /\ Range(Accepted) = Range(emitted) \cup Range(running) \cup Range(waiting)
         /\ IsInjective(Accepted) => Range(running) \cap Range(waiting) = {}
<1>1. emitted \in Seq(ReqId) /\ running \in Seq(ReqId) /\ waiting \in Seq(ReqId)
  BY DEF TypeOK
<1>2. emitted \o running \in Seq(ReqId) /\ running \o waiting \in Seq(ReqId)
  BY <1>1
<1>3. Accepted = emitted \o (running \o waiting)
  BY <1>1 DEF Accepted
<1>4. Accepted \in Seq(ReqId)
  BY <1>1, <1>2, <1>3
<1>5. Range(Accepted) = Range(emitted) \cup Range(running) \cup Range(waiting)
  <2>1. Range(running \o waiting) = Range(running) \cup Range(waiting)
    BY <1>1, RangeConcat
  <2>2. Range(emitted \o (running \o waiting)) = Range(emitted) \cup Range(running \o waiting)
    <3> DEFINE q == running \o waiting
    <3>1. q \in Seq(ReqId)
      BY <1>2
    <3> HIDE DEF q
    <3>2. Range(emitted \o q) = Range(emitted) \cup Range(q)
      BY <1>1, <3>1, RangeConcat
    <3>3. QED
      BY <3>2 DEF q
  <2>3. QED
    BY <1>3, <2>1, <2>2
<1>6. ASSUME IsInjective(Accepted) PROVE Range(running) \cap Range(waiting) = {}
  BY <1>1, <1>2, <1>3, <1>6, RangeConcat, Zenon
<1>7. QED
  BY <1>2, <1>3, <1>4, <1>5, <1>6

(* Because every running request has a state, the batch starts at          *)
(* running[1].                                                             *)
LEMMA HeadIsFirst ==
  ASSUME TypeOK, AllKept, NEW h \in Batch, IsBatchHead(h)
  PROVE  /\ h = 1 /\ running # <<>> /\ running[1] = Head(running)
         /\ RemoveAt(running, h) = Tail(running)
<1>1. running \in Seq(ReqId) /\ h \in 1 .. Len(running) /\ Len(running) \in Nat
  BY DEF TypeOK, Batch
<1>2. running # <<>> /\ 1 \in 1 .. Len(running) /\ running[1] = Head(running)
  BY <1>1
<1>3. running[1] \in Range(running)
  BY <1>1, <1>2 DEF Range
<1>4. running[1] \in DOMAIN states
  BY <1>3, AcceptedFacts DEF AllKept
<1>5. {j \in 1 .. (1 - 1) : running[j] \in DOMAIN states} = {}
  OBVIOUS
<1>6. Cardinality({j \in 1 .. (1 - 1) : running[j] \in DOMAIN states}) < MaxBatchSize
  BY <1>5, FS_EmptySet, MaxBatchSizeAssumption
<1>7. 1 \in Batch
  BY <1>2, <1>4, <1>6 DEF Batch
<1>8. h = 1
  BY <1>1, <1>7 DEF IsBatchHead
<1>9. QED
  BY <1>1, <1>2, <1>8, RemoveFirstIsTail

(* Migration moves the head of waiting to the end of running.              *)
LEMMA MigrateMoves ==
  ASSUME TypeOK, AllKept, Migrate
  PROVE  /\ running' \o waiting' = running \o waiting
         /\ emitted' = emitted /\ states' = states
<1>1. /\ running \in Seq(ReqId) /\ waiting \in Seq(ReqId) /\ waiting # <<>>
      /\ emitted' = emitted /\ waiting' = Tail(waiting)
  BY DEF TypeOK, Migrate, migrate_one
<1>2. Head(waiting) \in Range(waiting)
  <2>1. Head(waiting) = waiting[1] /\ 1 \in DOMAIN waiting
    BY <1>1
  <2>2. QED
    BY <2>1 DEF Range
<1>3. Head(waiting) \notin Range(running) /\ Head(waiting) \in DOMAIN states
  BY <1>2, AcceptedFacts DEF AllKept
<1>4. running' = Append(running, Head(waiting)) /\ states' = states
  BY <1>3 DEF Migrate, migrate_one
<1>5. QED
  BY <1>1, <1>4, MoveHead

(* A denoising step completes the first running request or none.           *)
LEMMA StepMoves ==
  ASSUME TypeOK, AllKept, Step
  PROVE  /\ waiting' = waiting /\ input_queue' = input_queue
         /\ client' = client /\ requests' = requests
         /\ DOMAIN states' = DOMAIN states
         /\ \/ running' = running /\ emitted' = emitted
            \/ /\ running # <<>>
               /\ running' = Tail(running)
               /\ emitted' = Append(emitted, Head(running))
<1>1. PICK h \in Batch : IsBatchHead(h) /\
         \E new_x \in NewTexts(states[running[h]]) : ExecuteDiffusionOnce(h, new_x)
  BY DEF Step
<1>2. PICK new_x \in NewTexts(states[running[h]]) : ExecuteDiffusionOnce(h, new_x)
  BY <1>1
<1>3. /\ h = 1 /\ running # <<>> /\ running[1] = Head(running)
      /\ RemoveAt(running, h) = Tail(running)
  BY <1>1, HeadIsFirst
<1>4. running[h] \in DOMAIN states
  BY DEF Batch
<1>5. DOMAIN states' = DOMAIN states
  <2>1. states' = Put(states, running[h], Advance(states[running[h]], new_x))
    BY <1>2, Zenon DEF ExecuteDiffusionOnce, apply_update
  <2>2. QED
    BY <1>4, <2>1 DEF Put
<1>6. QED
  BY <1>2, <1>3, <1>5 DEF ExecuteDiffusionOnce, apply_update, clientVars

LEMMA HandleAddMoves ==
  ASSUME TypeOK, HandleAdd
  PROVE  /\ running' \o waiting' = Append(running \o waiting, Head(input_queue).req_id)
         /\ Head(input_queue).req_id \in ReqId
         /\ emitted' = emitted /\ running' = running
         /\ DOMAIN states' = DOMAIN states \cup {Head(input_queue).req_id}
         /\ \A r \in DOMAIN states : r # Head(input_queue).req_id
                                       => states'[r] = states[r]
<1>1. Head(input_queue).req_id \in ReqId
  BY InputHead DEF HandleAdd
<1>2. /\ running' = running /\ emitted' = emitted
      /\ waiting' = Append(waiting, Head(input_queue).req_id)
  BY DEF HandleAdd, add_request
<1>3. running \in Seq(ReqId) /\ waiting \in Seq(ReqId)
  BY DEF TypeOK
<1>4. states' = Put(states, Head(input_queue).req_id,
                    InitialState(Head(input_queue).req_id))
  BY DEF HandleAdd, add_request
<1>5. QED
  BY <1>1, <1>2, <1>3, <1>4, ConcatAppend DEF Put

-----------------------------------------------------------------------------
(* Conservation.                                                           *)

(* A step that moves no request and changes neither the input queue nor    *)
(* who has submitted keeps Conservation.                                   *)
LEMMA ConservationFrame ==
  ASSUME AllKept, Accepted' = Accepted, input_queue' = input_queue,
         DOMAIN states' = DOMAIN states,
         \A r \in ReqId : client[r] \in {"new", "rejected"}
                            <=> client'[r] \in {"new", "rejected"}
  PROVE  AllKept'
<1>1. PendingAdds' = PendingAdds
  BY DEF PendingAdds
<1>2. QED
  BY <1>1 DEF AllKept

LEMMA ConservationInit == Init => AllKept
<1> SUFFICES ASSUME Init PROVE AllKept
  OBVIOUS
<1>1. Accepted = <<>>
  BY DEF Init, SchedInit, Accepted
<1>2. Range(Accepted) = {} /\ IsInjective(Accepted)
  BY <1>1 DEF Range, IsInjective
<1>3. PendingAdds = {} /\ DOMAIN states = {}
  BY DEF Init, SchedInit, PendingAdds
<1>4. \A r \in ReqId : client[r] = "new"
  BY DEF Init
<1>5. QED
  BY <1>2, <1>3, <1>4 DEF AllKept

LEMMA ConservationSubmit ==
  ASSUME TypeOK, AllKept, NEW r \in ReqId, Submit(r)
  PROVE  AllKept'
<1>1. Accepted' = Accepted /\ states' = states
  BY DEF Submit, schedVars, Accepted
<1>2. client \in [ReqId -> Status] /\ client[r] = "new"
  BY DEF Submit, TypeOK
<1>3. CASE engine_dead[ClientOf(r)]
  <2>1. client' = [client EXCEPT ![r] = "rejected"] /\ input_queue' = input_queue
    BY <1>3 DEF Submit
  <2>2. \A q \in ReqId : client[q] \in {"new", "rejected"}
                           <=> client'[q] \in {"new", "rejected"}
    BY <1>2, <2>1
  <2>3. QED
    BY <1>1, <2>1, <2>2, ConservationFrame
<1>4. CASE ~engine_dead[ClientOf(r)]
  <2>1. client' = [client EXCEPT ![r] = "open"] /\ input_queue' = Append(input_queue, Add(r))
    BY <1>4 DEF Submit
  <2> DEFINE n == Len(input_queue) + 1
  <2>2. /\ input_queue \in Seq(Message) /\ Len(input_queue) \in Nat
        /\ Add(r) \in Message
    BY DEF TypeOK, Add, Message
  <2>3. /\ Len(input_queue') = n /\ input_queue'[n] = Add(r)
        /\ \A i \in 1 .. Len(input_queue) : input_queue'[i] = input_queue[i]
    BY <2>1, <2>2
  <2>4. /\ PendingAdds' = PendingAdds \cup {n}
        /\ n \notin PendingAdds
        /\ \A i \in PendingAdds : input_queue'[i] = input_queue[i]
        /\ input_queue'[n].req_id = r
    BY <2>2, <2>3 DEF PendingAdds, Add
  <2>5. r \notin Range(Accepted) /\ \A i \in PendingAdds : input_queue[i].req_id # r
    BY <1>2 DEF AllKept
  <2> HIDE DEF n
  <2>6. \A i, j \in PendingAdds' :
          input_queue'[i].req_id = input_queue'[j].req_id => i = j
    BY <2>4, <2>5 DEF AllKept
  <2>7. \A i \in PendingAdds' : input_queue'[i].req_id \notin Range(Accepted)
    BY <2>4, <2>5 DEF AllKept
  <2>8. \A q \in ReqId :
          client'[q] \notin {"new", "rejected"} <=>
            \/ q \in Range(Accepted)
            \/ \E i \in PendingAdds' : input_queue'[i].req_id = q
    <3>1. client'[r] = "open" /\ \A q \in ReqId \ {r} : client'[q] = client[q]
      BY <1>2, <2>1
    <3>2. QED
      BY <2>4, <2>5, <3>1 DEF AllKept
  <2>9. QED
    BY <1>1, <2>6, <2>7, <2>8 DEF AllKept
<1>5. QED
  BY <1>3, <1>4

(* Messages that are not ADD do not count.                                 *)
LEMMA ConservationCancel ==
  ASSUME TypeOK, AllKept, NEW r \in ReqId, Cancel(r)
  PROVE  AllKept'
<1>1. Accepted' = Accepted /\ states' = states
  BY DEF Cancel, schedVars, Accepted
<1>2. \A q \in ReqId : client[q] \in {"new", "rejected"}
                         <=> client'[q] \in {"new", "rejected"}
  BY DEF Cancel, TypeOK
<1>3. /\ PendingAdds' = PendingAdds
      /\ \A i \in PendingAdds : input_queue'[i] = input_queue[i]
  <2>1. CASE input_queue' = input_queue
    BY <2>1 DEF PendingAdds
  <2>2. CASE input_queue' = Append(input_queue, Abort(r))
    <3>1. /\ input_queue \in Seq(Message) /\ Len(input_queue) \in Nat
          /\ Abort(r) \in Message /\ Abort(r).type = "ABORT"
      BY DEF TypeOK, Abort, Message
    <3>2. /\ Len(input_queue') = Len(input_queue) + 1
          /\ input_queue'[Len(input_queue) + 1] = Abort(r)
          /\ \A i \in 1 .. Len(input_queue) : input_queue'[i] = input_queue[i]
      BY <2>2, <3>1
    <3>3. QED
      BY <3>1, <3>2 DEF PendingAdds
  <2>3. QED
    BY <2>1, <2>2, Zenon DEF Cancel
<1>4. QED
  BY <1>1, <1>2, <1>3 DEF AllKept

(* Taking the head off the input queue shifts the pending ADDs by one.     *)
LEMMA TailShifts ==
  ASSUME TypeOK, input_queue # <<>>, input_queue' = Tail(input_queue)
  PROVE  /\ \A i \in PendingAdds' :
              i + 1 \in PendingAdds /\ input_queue'[i] = input_queue[i + 1]
         /\ \A i \in PendingAdds : i # 1 =>
              i - 1 \in PendingAdds' /\ input_queue'[i - 1] = input_queue[i]
         /\ PendingAdds \subseteq Nat /\ PendingAdds' \subseteq Nat
         /\ 1 \in PendingAdds <=> Head(input_queue).type = "ADD"
         /\ Head(input_queue) = input_queue[1]
         /\ \A i \in PendingAdds' : i # 0
<1>1. /\ input_queue \in Seq(Message) /\ Len(input_queue) \in Nat
      /\ Len(input_queue) # 0
  BY DEF TypeOK
<1>2. /\ Len(input_queue') = Len(input_queue) - 1
      /\ \A i \in 1 .. Len(input_queue) - 1 : input_queue'[i] = input_queue[i + 1]
      /\ Head(input_queue) = input_queue[1]
  BY <1>1
<1>3. \A i \in PendingAdds' :
        i + 1 \in PendingAdds /\ input_queue'[i] = input_queue[i + 1]
  BY <1>1, <1>2 DEF PendingAdds
<1>4. \A i \in PendingAdds : i # 1 =>
        i - 1 \in PendingAdds' /\ input_queue'[i - 1] = input_queue[i]
  <2>1. SUFFICES ASSUME NEW i \in PendingAdds, i # 1
                 PROVE  i - 1 \in PendingAdds' /\ input_queue'[i - 1] = input_queue[i]
    BY Zenon
  <2>2. i \in 1 .. Len(input_queue) /\ input_queue[i].type = "ADD"
    BY DEF PendingAdds
  <2>3. i - 1 \in 1 .. Len(input_queue) - 1 /\ (i - 1) + 1 = i
    BY <1>1, <2>1, <2>2
  <2>4. input_queue'[i - 1] = input_queue[i]
    BY <1>2, <2>3
  <2>5. QED
    BY <1>2, <2>2, <2>3, <2>4 DEF PendingAdds
<1>5. /\ PendingAdds \subseteq Nat /\ PendingAdds' \subseteq Nat
      /\ \A i \in PendingAdds' : i # 0
  BY <1>1, <1>2 DEF PendingAdds
<1>6. 1 \in PendingAdds <=> Head(input_queue).type = "ADD"
  BY <1>1, <1>2 DEF PendingAdds
<1>7. QED
  BY <1>2, <1>3, <1>4, <1>5, <1>6, Zenon

LEMMA ConservationHandleAdd ==
  ASSUME TypeOK, AllKept, HandleAdd
  PROVE  AllKept'
<1> DEFINE r == Head(input_queue).req_id
<1>1. /\ input_queue # <<>> /\ input_queue' = Tail(input_queue)
      /\ Head(input_queue).type = "ADD" /\ client' = client
  BY DEF HandleAdd, clientVars
<1>2. /\ \A i \in PendingAdds' :
           i + 1 \in PendingAdds /\ input_queue'[i] = input_queue[i + 1]
      /\ \A i \in PendingAdds : i # 1 =>
           i - 1 \in PendingAdds' /\ input_queue'[i - 1] = input_queue[i]
      /\ PendingAdds \subseteq Nat /\ PendingAdds' \subseteq Nat
      /\ 1 \in PendingAdds /\ input_queue[1].req_id = r
      /\ \A i \in PendingAdds' : i # 0
  BY <1>1, TailShifts, ZenonT(30)
<1>3. r \notin Range(Accepted) /\ \A i \in PendingAdds : i # 1 => input_queue[i].req_id # r
  <2>1. /\ \A i, j \in PendingAdds :
             input_queue[i].req_id = input_queue[j].req_id => i = j
        /\ \A i \in PendingAdds : input_queue[i].req_id \notin Range(Accepted)
    BY Zenon DEF AllKept
  <2>2. 1 \in PendingAdds /\ input_queue[1].req_id = r
    BY <1>2, Zenon
  <2>. QED  BY <2>1, <2>2, Zenon
<1>4. r \in ReqId /\ Accepted \in Seq(ReqId)
  BY HandleAddMoves, AcceptedFacts
<1>5. Accepted' = Append(Accepted, r)
  <2>1. /\ emitted' = emitted /\ running' = running
        /\ waiting' = Append(waiting, r)
    BY Zenon DEF HandleAdd, add_request
  <2>2. emitted \o running \in Seq(ReqId) /\ waiting \in Seq(ReqId)
    BY DEF TypeOK
  <2> HIDE DEF r
  <2>3. (emitted \o running) \o Append(waiting, r) = Append((emitted \o running) \o waiting, r)
    BY <1>4, <2>2, ConcatAppend
  <2>4. QED
    BY <2>1, <2>3 DEF Accepted
<1> HIDE DEF r
<1>6. IsInjective(Accepted') /\ Range(Accepted') = Range(Accepted) \cup {r}
  BY <1>3, <1>4, <1>5, RangeAppend DEF AllKept
<1>7. \A i, j \in PendingAdds' :
        input_queue'[i].req_id = input_queue'[j].req_id => i = j
  <2>1. SUFFICES ASSUME NEW i \in PendingAdds', NEW j \in PendingAdds',
                        input_queue'[i].req_id = input_queue'[j].req_id
                 PROVE  i = j
    OBVIOUS
  <2>2. i + 1 = j + 1
    BY <1>2, <2>1 DEF AllKept
  <2>3. QED
    BY <1>2, <2>2
<1>8. \A i \in PendingAdds' : input_queue'[i].req_id \notin Range(Accepted')
  <2>1. SUFFICES ASSUME NEW i \in PendingAdds'
                 PROVE  input_queue'[i].req_id \notin Range(Accepted')
    OBVIOUS
  <2>2. i + 1 \in PendingAdds /\ i + 1 # 1 /\ input_queue'[i] = input_queue[i + 1]
    BY <1>2
  <2>3. QED
    BY <1>3, <1>6, <2>2 DEF AllKept
<1>9. \A q \in ReqId :
        client'[q] \notin {"new", "rejected"} <=>
          \/ q \in Range(Accepted')
          \/ \E i \in PendingAdds' : input_queue'[i].req_id = q
  <2>1. SUFFICES ASSUME NEW q \in ReqId
                 PROVE (\/ q \in Range(Accepted')
                        \/ \E i \in PendingAdds' : input_queue'[i].req_id = q)
                       <=>
                       (\/ q \in Range(Accepted)
                        \/ \E i \in PendingAdds : input_queue[i].req_id = q)
    BY <1>1, Zenon DEF AllKept
  <2>2. ASSUME NEW i \in PendingAdds, input_queue[i].req_id = q, q # r
        PROVE  \E j \in PendingAdds' : input_queue'[j].req_id = q
    <3>1. i - 1 \in PendingAdds' /\ input_queue'[i - 1] = input_queue[i]
      BY <1>2, <2>2
    <3>2. QED
      BY <2>2, <3>1
  <2>3. ASSUME NEW i \in PendingAdds', input_queue'[i].req_id = q
        PROVE  \E j \in PendingAdds : input_queue[j].req_id = q
    BY <1>2, <2>3
  <2>4. QED
    BY <1>2, <1>6, <2>2, <2>3
<1>10. DOMAIN states' = Range(Accepted')
  BY <1>6, HandleAddMoves DEF AllKept, r
<1>11. QED
  BY <1>6, <1>7, <1>8, <1>9, <1>10 DEF AllKept

LEMMA ConservationHandleAbort ==
  ASSUME TypeOK, AllKept, HandleAbort
  PROVE  AllKept'
<1>1. /\ input_queue # <<>> /\ input_queue' = Tail(input_queue)
      /\ Head(input_queue).type # "ADD" /\ client' = client
      /\ Accepted' = Accepted /\ states' = states
  BY DEF HandleAbort, clientVars, schedVars, Accepted
<1>2. /\ \A i \in PendingAdds' :
           i + 1 \in PendingAdds /\ input_queue'[i] = input_queue[i + 1]
      /\ \A i \in PendingAdds :
           i - 1 \in PendingAdds' /\ input_queue'[i - 1] = input_queue[i]
      /\ PendingAdds' \subseteq Nat
  BY <1>1, TailShifts, Zenon
<1>3. \A i, j \in PendingAdds' :
        input_queue'[i].req_id = input_queue'[j].req_id => i = j
  <2>1. SUFFICES ASSUME NEW i \in PendingAdds', NEW j \in PendingAdds',
                        input_queue'[i].req_id = input_queue'[j].req_id
                 PROVE  i = j
    OBVIOUS
  <2>2. i + 1 = j + 1
    BY <1>2, <2>1 DEF AllKept
  <2>3. QED
    BY <1>2, <2>2
<1>4. \A i \in PendingAdds' : input_queue'[i].req_id \notin Range(Accepted)
  BY <1>2 DEF AllKept
<1>5. \A q : (\E i \in PendingAdds' : input_queue'[i].req_id = q)
               <=> (\E i \in PendingAdds : input_queue[i].req_id = q)
  BY <1>2, ZenonT(30)
<1>6. QED
  BY <1>1, <1>3, <1>4, <1>5, Zenon DEF AllKept

LEMMA ConservationNext == TypeOK /\ AllKept /\ [Next]_vars => AllKept'
<1> SUFFICES ASSUME TypeOK, AllKept, [Next]_vars PROVE AllKept'
  OBVIOUS
<1>1. ASSUME NEW r \in ReqId, Submit(r) PROVE AllKept'
  BY <1>1, ConservationSubmit
<1>2. ASSUME NEW r \in ReqId, Cancel(r) PROVE AllKept'
  BY <1>2, ConservationCancel
<1>3. ASSUME NEW c \in Client, ProcessOutput(c) PROVE AllKept'
  <2>1. \A q \in ReqId : client[q] \in {"new", "rejected"}
                           <=> client'[q] \in {"new", "rejected"}
    BY <1>3 DEF ProcessOutput, process_outputs, propagate_error, TypeOK
  <2>2. Accepted' = Accepted /\ input_queue' = input_queue /\ states' = states
    BY <1>3 DEF ProcessOutput, Accepted, schedVars
  <2>3. QED
    BY <2>1, <2>2, ConservationFrame, Zenon
<1>4. CASE HandleAdd
  BY <1>4, ConservationHandleAdd
<1>5. CASE HandleAbort
  BY <1>5, ConservationHandleAbort
<1>6. CASE Migrate
  <2>1. running' \o waiting' = running \o waiting /\ emitted' = emitted /\ states' = states
    BY <1>6, MigrateMoves
  <2>2. TypeOK'
    BY TypeNext
  <2>3. Accepted' = Accepted
    <3>1. emitted' \in Seq(ReqId) /\ running' \in Seq(ReqId) /\ waiting' \in Seq(ReqId)
      BY <2>2 DEF TypeOK
    <3>2. (emitted' \o running') \o waiting' = emitted' \o (running' \o waiting')
      BY <3>1
    <3>3. QED
      BY <2>1, <3>2, AcceptedFacts, Zenon DEF Accepted
  <2>4. client' = client /\ input_queue' = input_queue
    BY <1>6 DEF Migrate, clientVars
  <2>5. QED
    BY <2>1, <2>3, <2>4, ConservationFrame
<1>7. CASE Step
  <2>1. /\ waiting' = waiting /\ input_queue' = input_queue /\ client' = client
        /\ DOMAIN states' = DOMAIN states
        /\ \/ running' = running /\ emitted' = emitted
           \/ /\ running # <<>> /\ running' = Tail(running)
              /\ emitted' = Append(emitted, Head(running))
    BY <1>7, StepMoves
  <2>2. running # <<>> => Append(emitted, Head(running)) \o Tail(running) = emitted \o running
    BY MoveHead, Zenon DEF TypeOK
  <2>3. Accepted' = Accepted
    BY <2>1, <2>2, Zenon DEF Accepted
  <2>4. QED
    BY <2>1, <2>3, ConservationFrame
<1>8. CASE BeginStep \/ MigrateRaises \/ StepRaises \/ Idle \/ UNCHANGED vars
  <2>1. /\ Accepted' = Accepted /\ input_queue' = input_queue
        /\ states' = states /\ client' = client
    BY <1>8 DEF BeginStep, MigrateRaises, StepRaises, Die, Idle, vars, schedVars,
                clientVars, Accepted
  <2>2. QED
    BY <2>1, ConservationFrame
<1>9. QED
  BY <1>1, <1>2, <1>3, <1>4, <1>5, <1>6, <1>7, <1>8 DEF Next, Main

LEMMA KeptAlways == Spec => []AllKept
<1>1. QED
  BY TypeCorrect, ConservationInit, ConservationNext, PTL DEF Spec

(* No request that its caller did not abort is lost on its way through the *)
(* input queue, waiting, running and the outputs, and none is duplicated.  *)
THEOREM Conserved == Spec => []Conservation
<1>1. AllKept => Conservation
  BY Zenon DEF AllKept, Conservation
<1>2. QED
  BY <1>1, KeptAlways, PTL

-----------------------------------------------------------------------------
(* Order of service.                                                       *)

LEMMA ServerStep ==
  ASSUME TypeOK, AllKept, [Next]_vars
  PROVE  [Server!Next]_<<running \o waiting, emitted>>
<1>1. CASE HandleAdd
  BY <1>1, HandleAddMoves DEF Server!Next, Server!Accept
<1>2. CASE Migrate
  BY <1>2, MigrateMoves
<1>3. CASE Step
  <2>1. CASE running' = running /\ emitted' = emitted
    BY <1>3, <2>1, StepMoves
  <2>2. CASE /\ running # <<>> /\ running' = Tail(running)
             /\ emitted' = Append(emitted, Head(running))
    <3>1. waiting' = waiting
      BY <1>3, StepMoves
    <3>2. /\ running \o waiting # <<>>
          /\ Head(running \o waiting) = Head(running)
          /\ Tail(running \o waiting) = Tail(running) \o waiting
      <4>1. running \in Seq(ReqId) /\ waiting \in Seq(ReqId)
        BY Zenon DEF TypeOK
      <4>2. QED
        BY <2>2, <4>1, ConcatHeadTail, Zenon
    <3>3. QED
      BY <2>2, <3>1, <3>2, Zenon DEF Server!Next, Server!Serve
  <2>3. QED
    BY <1>3, <2>1, <2>2, StepMoves
<1>4. ASSUME ~HandleAdd, ~Migrate, ~Step
      PROVE  UNCHANGED <<running \o waiting, emitted>>
  <2>1. ASSUME NEW r \in ReqId, Submit(r) \/ Cancel(r)
        PROVE  UNCHANGED <<running, waiting, emitted>>
    BY <2>1 DEF Submit, Cancel, schedVars
  <2>2. ASSUME NEW c \in Client, ProcessOutput(c)
        PROVE  UNCHANGED <<running, waiting, emitted>>
    BY <2>2 DEF ProcessOutput, schedVars
  <2>3. CASE HandleAbort \/ BeginStep \/ MigrateRaises \/ StepRaises \/ Idle
               \/ UNCHANGED vars
    BY <2>3 DEF HandleAbort, BeginStep, MigrateRaises, StepRaises, Die, Idle, vars,
                schedVars
  <2>4. QED
    BY <1>4, <2>1, <2>2, <2>3 DEF Next, Main
<1>5. QED
  BY <1>1, <1>2, <1>3, <1>4

(* The engine implements FifoServer: although it schedules batches,        *)
(* requests are completed one by one, in the order they were accepted,     *)
(* each once, whatever is cancelled and however the network samples.       *)
THEOREM Fifo == Spec => ServesInOrder
<1>1. Init => Server!Init
  <2>1. <<>> \o <<>> = <<>>
    OBVIOUS
  <2>2. QED
    BY <2>1 DEF Init, SchedInit, Server!Init
<1>2. QED
  BY <1>1, TypeCorrect, KeptAlways, ServerStep, PTL DEF Spec, ServesInOrder, Server!Spec

-----------------------------------------------------------------------------
(* Revealed tokens.                                                        *)

LEMMA BlockAfterPrompt ==
  ASSUME NEW st \in DiffusionRuntimeState, NEW i \in Block(st)
  PROVE  i > st.prompt_len
<1>1. st.prompt_len \in Nat /\ st.block_idx \in Nat /\ st.params.block_length \in Nat
  BY DEF DiffusionRuntimeState, Params
<1>2. st.block_idx * st.params.block_length \in Nat
  BY <1>1
<1>3. QED
  BY <1>1, <1>2 DEF Block, BlockStart, BlockEnd, Smaller

(* RevealedIsFinal: no step changes the prompt or a revealed token of any  *)
(* request the scheduler knows, including the engine's repeated passes     *)
(* over the same block and the arrival of other requests.                  *)
THEOREM Final == Spec => RevealedIsFinal
<1> DEFINE Kept(r) ==
      /\ r \in DOMAIN states'
      /\ \A i \in 1 .. Len(states[r].x) :
           i <= states[r].prompt_len \/ states[r].x[i] # MaskId
             => states'[r].x[i] = states[r].x[i]
<1>1. ASSUME TypeOK, AllKept, Next, NEW r \in DOMAIN states PROVE Kept(r)
  <2>1. CASE HandleAdd
    <3>1. Head(input_queue).req_id \notin DOMAIN states
      <4>1. 1 \in PendingAdds /\ input_queue[1] = Head(input_queue)
        BY <1>1, <2>1 DEF HandleAdd, PendingAdds, TypeOK
      <4>2. QED
        BY <1>1, <4>1 DEF AllKept
    <3>2. QED
      BY <1>1, <2>1, <3>1, HandleAddMoves
  <2>2. CASE Step
    <3>1. PICK h \in Batch : \E y \in NewTexts(states[running[h]]) :
             ExecuteDiffusionOnce(h, y)
      BY <2>2 DEF Step
    <3>2. PICK y \in NewTexts(states[running[h]]) : ExecuteDiffusionOnce(h, y)
      BY <3>1
    <3> DEFINE b == running[h]
    <3>3. b \in DOMAIN states /\ states[b] \in DiffusionRuntimeState
      BY <1>1 DEF Batch, TypeOK
    <3>4. states' = Put(states, b, Advance(states[b], y))
      BY <3>2 DEF ExecuteDiffusionOnce, apply_update
    <3>5. Advance(states[b], y).x = y
      BY <3>3, AdvanceFields
    <3>6. \A i \in 1 .. Len(states[b].x) :
            y[i] # states[b].x[i] => i \in Block(states[b]) /\ states[b].x[i] = MaskId
      BY <3>3, NewTextsFacts
    <3>7. \A i \in Block(states[b]) : i > states[b].prompt_len
      BY <3>3, BlockAfterPrompt
    <3>8. states[b].prompt_len \in Nat /\ Block(states[b]) \subseteq Int
      BY <3>3 DEF DiffusionRuntimeState, Block
    <3> HIDE DEF b
    <3>9. CASE r = b
      BY <1>1, <3>4, <3>5, <3>6, <3>7, <3>8, <3>9 DEF Put
    <3>10. CASE r # b
      BY <1>1, <3>4, <3>10 DEF Put
    <3>11. QED
      BY <3>9, <3>10
  <2>3. CASE Migrate
    BY <1>1, <2>3, MigrateMoves, Zenon
  <2>4. ASSUME ~HandleAdd, ~Step, ~Migrate PROVE states' = states
    BY <1>1, <2>4, Zenon DEF Next, Main, Submit, Cancel, ProcessOutput, HandleAbort, BeginStep,
         MigrateRaises, StepRaises, Die, Idle, vars, schedVars
  <2>5. QED
    BY <1>1, <2>1, <2>2, <2>3, <2>4
<1>2. TypeOK /\ AllKept /\ [Next]_vars => [\A r \in DOMAIN states : Kept(r)]_vars
  BY <1>1
<1>3. QED
  BY <1>2, TypeCorrect, KeptAlways, PTL DEF Spec, RevealedIsFinal
-----------------------------------------------------------------------------
(* The invariant of the runtime states.                                    *)

(* Nothing after the current block has been revealed.                      *)
NothingAhead(st) ==
  \A i \in 1 .. st.total_len :
    i > BlockStart(st) + st.params.block_length => st.x[i] = MaskId

(* The blocks before the current one are revealed, and the current one has *)
(* the masks left that the quotas owe.                                     *)
BlocksRight(st) ==
  LET n == BlockEnd(st) - BlockStart(st) IN
  /\ \A i \in (st.prompt_len + 1) .. st.total_len :
       i <= BlockStart(st) => st.x[i] # MaskId
  /\ st.block_idx < NumBlocks(st.params) =>
       Cardinality(MaskedIn(st, Block(st))) =
         n - Revealed(n, StepsPerBlock(st.params), st.step_idx_in_block)

(* A request on its way, and one that has left the engine.                 *)
InBudget(st) ==
  /\ st.block_idx < NumBlocks(st.params)
  /\ st.step_idx_in_block < StepsPerBlock(st.params)
Underway(st) ==
  /\ InBudget(st)
  /\ HeadParamsAccepted(st.params) => OutputMasks(st) # {}
Settled(st) ==
  /\ Finished(st)
  /\ st.block_idx <= NumBlocks(st.params)
  /\ StepsTaken(st) <= NumBlocks(st.params) * StepsPerBlock(st.params)
  /\ HeadParamsAccepted(st.params)

StateRight(r) ==
  LET st == states[r] IN
  /\ st.params = requests[r].params
  /\ NothingAhead(st)
  /\ r \notin Range(emitted) => Underway(st)
  /\ r \in Range(emitted) => Settled(st)
  /\ MaskId \notin Vocab => BlocksRight(st)
TextInv == \A r \in DOMAIN states : StateRight(r)

(* The outputs on their way to the front-ends, and the delivered ones.     *)
DeliveryInv ==
  /\ \A c \in Client : \A m \in Range(output_queue[c]) : m.type = "OUTPUT" =>
         m.req_id \in Range(emitted) /\ m.tail = Tail_token_ids(states[m.req_id])
  /\ \A r \in ReqId : client[r] = "done" =>
       r \in Range(emitted) /\ received[r] = Tail_token_ids(states[r])

-----------------------------------------------------------------------------
(* Arithmetic of blocks and steps.                                         *)

LEMMA TimesMonotone ==
  ASSUME NEW a \in Nat, NEW b \in Nat, NEW c \in Nat, a <= b
  PROVE  a * c <= b * c /\ a * c \in Nat /\ b * c \in Nat
<1>1. PICK d \in Nat : b = a + d
  <2>1. b - a \in Nat /\ b = a + (b - a)
    OBVIOUS
  <2>2. QED
    BY <2>1
<1>2. b * c = a * c + d * c
  BY <1>1
<1>3. a * c \in Nat /\ d * c \in Nat
  OBVIOUS
<1>4. QED
  BY <1>2, <1>3

LEMMA Quotient ==
  ASSUME NEW n \in Nat, NEW w \in Nat \ {0}
  PROVE  /\ n \div w \in Nat /\ n % w \in 0 .. w - 1
         /\ n = w * (n \div w) + (n % w)
<1> DEFINE q == n \div w
           m == n % w
<1>1. q \in Nat /\ m \in 0 .. w - 1
  OBVIOUS
<1>2. n = w * q + m
  <2>1. q = n \div w /\ m = n % w
    OBVIOUS
  <2> HIDE DEF q, m
  <2>2. QED
    BY <1>1, <2>1
<1>3. QED
  BY <1>1, <1>2

(* The blocks before the last one fit in the generated text.               *)
LEMMA BlocksFit ==
  ASSUME NEW p \in Params, NEW b \in Nat, b < NumBlocks(p)
  PROVE  b * p.block_length <= p.gen_length
<1>1. p.gen_length \in Nat /\ p.block_length \in Nat
  BY DEF Params
<1>2. CASE b = 0
  BY <1>1, <1>2
<1>3. CASE b # 0
  <2> DEFINE w == AtLeastOne(p.block_length)
             q == p.gen_length \div w
             m == p.gen_length % w
  <2>1. w \in Nat \ {0} /\ p.block_length <= w
    BY <1>1 DEF AtLeastOne
  <2> HIDE DEF w, q, m
  <2>2. q \in Nat /\ m \in 0 .. w - 1 /\ p.gen_length = w * q + m
    BY <1>1, <2>1, Quotient, Zenon DEF q, m
  <2>3. NumBlocks(p) = AtLeastOne(q)
    BY DEF NumBlocks, w, q
  <2>4. b <= q
    BY <1>3, <2>2, <2>3 DEF AtLeastOne
  <2>5. b * w <= q * w
    BY <2>1, <2>2, <2>4, TimesMonotone
  <2>6. p.block_length * b <= w * b
    BY <1>1, <2>1, TimesMonotone
  <2>7. w * q = q * w /\ b * w = w * b /\ p.block_length * b = b * p.block_length
    BY <1>1, <2>1, <2>2
  <2> DEFINE wq == w * q
             wb == w * b
             lb == b * p.block_length
  <2>8. wq \in Nat /\ wb \in Nat /\ lb \in Nat
    BY <1>1, <2>1, <2>2
  <2>9. wb <= wq /\ lb <= wb /\ p.gen_length = wq + m
    BY <2>2, <2>5, <2>6, <2>7
  <2> HIDE DEF wq, wb, lb
  <2>10. lb <= p.gen_length
    BY <1>1, <2>2, <2>8, <2>9
  <2>11. QED
    BY <2>10 DEF lb
<1>4. QED
  BY <1>2, <1>3

(* Accepted parameters divide the generated text into whole blocks.        *)
LEMMA AcceptedBlocks ==
  ASSUME NEW p \in Params, HeadParamsAccepted(p)
  PROVE  /\ NumBlocks(p) * p.block_length = p.gen_length
         /\ BatchParamsAccepted(p)
<1>1. /\ p.gen_length \in Nat \ {0} /\ p.block_length \in Nat \ {0} /\ p.steps \in Nat
      /\ p.gen_length % p.block_length = 0
  BY DEF Params, HeadParamsAccepted
<1>2. AtLeastOne(p.block_length) = p.block_length
  BY <1>1 DEF AtLeastOne
<1> DEFINE q == p.gen_length \div p.block_length
<1>3. q \in Nat /\ p.gen_length = p.block_length * q
  <2>1. q \in Nat /\ p.gen_length = p.block_length * q + (p.gen_length % p.block_length)
    BY <1>1, Quotient, Zenon
  <2>2. QED
    BY <1>1, <2>1
<1>4. NumBlocks(p) = AtLeastOne(q) /\ p.steps % q = 0
  BY <1>2 DEF NumBlocks, HeadParamsAccepted
<1>5. p.gen_length % AtLeastOne(p.block_length) = 0
  BY <1>1, <1>2
<1> HIDE DEF q
<1>6. q # 0
  BY <1>1, <1>3
<1>7. NumBlocks(p) = q
  BY <1>3, <1>4, <1>6 DEF AtLeastOne
<1>8. NumBlocks(p) * p.block_length = p.gen_length
  BY <1>1, <1>3, <1>7
<1>9. QED
  BY <1>4, <1>5, <1>7, <1>8 DEF BatchParamsAccepted

(* What the quotas have revealed after s steps, and after all of them.     *)
LEMMA RevealedFacts ==
  ASSUME NEW n \in Nat, NEW steps \in Nat \ {0}, NEW s \in Nat, s < steps
  PROVE  /\ Revealed(n, steps, 0) = 0
         /\ Revealed(n, steps, steps) = n
         /\ Revealed(n, steps, s + 1) = Revealed(n, steps, s) + NumTransferTokens(n, steps, s)
         /\ Revealed(n, steps, s + 1) <= n
         /\ Revealed(n, steps, s) \in Nat /\ NumTransferTokens(n, steps, s) \in Nat
<1> DEFINE q == n \div steps
           m == n % steps
<1>1. q \in Nat /\ m \in 0 .. steps - 1 /\ n = steps * q + m
  BY Quotient, Zenon
<1>2. /\ \A t : Revealed(n, steps, t) = t * q + Smaller(t, m)
      /\ NumTransferTokens(n, steps, s) = q + (IF s < m THEN 1 ELSE 0)
  BY DEF Revealed, NumTransferTokens
<1> HIDE DEF q, m
<1>3. Revealed(n, steps, 0) = 0
  BY <1>1, <1>2 DEF Smaller
<1>4. Revealed(n, steps, steps) = n
  BY <1>1, <1>2 DEF Smaller
<1>5. s * q \in Nat /\ (s + 1) * q = s * q + q
  BY <1>1
<1>6. Revealed(n, steps, s + 1) = Revealed(n, steps, s) + NumTransferTokens(n, steps, s)
  <2>1. Smaller(s + 1, m) = Smaller(s, m) + (IF s < m THEN 1 ELSE 0) /\ Smaller(s, m) \in Nat
    BY <1>1 DEF Smaller
  <2>2. Revealed(n, steps, s + 1) = (s + 1) * q + Smaller(s + 1, m)
    BY <1>2
  <2>3. Revealed(n, steps, s) = s * q + Smaller(s, m)
    BY <1>2
  <2>4. QED
    BY <1>1, <1>2, <1>5, <2>1, <2>2, <2>3
<1>7. Revealed(n, steps, s + 1) <= n
  <2>1. (s + 1) * q <= steps * q
    BY <1>1, TimesMonotone
  <2>2. Smaller(s + 1, m) <= m /\ Smaller(s + 1, m) \in Nat
    BY <1>1 DEF Smaller
  <2>3. (s + 1) * q \in Nat /\ steps * q \in Nat
    BY <1>1
  <2>4. QED
    BY <1>1, <1>2, <2>1, <2>2, <2>3
<1>8. Revealed(n, steps, s) \in Nat /\ NumTransferTokens(n, steps, s) \in Nat
  BY <1>1, <1>2, <1>5 DEF Smaller
<1>9. QED
  BY <1>3, <1>4, <1>6, <1>7, <1>8

-----------------------------------------------------------------------------
(* The current block of a runtime state.                                   *)

LEMMA StateFacts ==
  ASSUME NEW st \in DiffusionRuntimeState
  PROVE  /\ st.x \in Seq(Token) /\ DOMAIN st.x = 1 .. st.total_len
         /\ st.prompt_len \in Nat /\ st.total_len \in Nat
         /\ st.block_idx \in Nat /\ st.step_idx_in_block \in Nat /\ st.params \in Params
         /\ st.params.gen_length \in Nat /\ st.params.block_length \in Nat
         /\ st.total_len = st.prompt_len + st.params.gen_length
         /\ NumBlocks(st.params) \in Nat \ {0} /\ StepsPerBlock(st.params) \in Nat \ {0}
         /\ BlockStart(st) \in Nat /\ st.prompt_len <= BlockStart(st)
<1>1. /\ st.x \in Seq(Token) /\ Len(st.x) = st.total_len
      /\ st.prompt_len \in Nat /\ st.total_len \in Nat
      /\ st.block_idx \in Nat /\ st.step_idx_in_block \in Nat /\ st.params \in Params
      /\ st.total_len = st.prompt_len + st.params.gen_length
  BY DEF DiffusionRuntimeState
<1>2. st.params.gen_length \in Nat /\ st.params.block_length \in Nat
  BY <1>1 DEF Params
<1>3. NumBlocks(st.params) \in Nat \ {0} /\ StepsPerBlock(st.params) \in Nat \ {0}
  BY <1>1, NumBlocksPositive
<1>4. st.block_idx * st.params.block_length \in Nat
  BY <1>1, <1>2
<1>5. BlockStart(st) \in Nat /\ st.prompt_len <= BlockStart(st)
  BY <1>1, <1>4 DEF BlockStart
<1>6. QED
  BY <1>1, <1>2, <1>3, <1>5

LEMMA BlockFacts ==
  ASSUME NEW st \in DiffusionRuntimeState, st.block_idx < NumBlocks(st.params)
  PROVE  /\ BlockEnd(st) \in Nat /\ BlockStart(st) <= BlockEnd(st) /\ BlockEnd(st) <= st.total_len
         /\ IsFiniteSet(Block(st)) /\ Cardinality(Block(st)) = BlockEnd(st) - BlockStart(st)
         /\ \A i \in 1 .. st.total_len :
              i \in Block(st) <=>
                BlockStart(st) < i /\ i <= BlockStart(st) + st.params.block_length
         /\ Block(st) \subseteq (st.prompt_len + 1) .. st.total_len
<1>1. /\ st.prompt_len \in Nat /\ st.total_len \in Nat /\ st.block_idx \in Nat
      /\ st.params \in Params /\ st.params.gen_length \in Nat /\ st.params.block_length \in Nat
      /\ st.total_len = st.prompt_len + st.params.gen_length
      /\ BlockStart(st) \in Nat /\ st.prompt_len <= BlockStart(st)
  BY StateFacts
<1>2. st.block_idx * st.params.block_length <= st.params.gen_length
  BY <1>1, BlocksFit
<1>3. st.block_idx * st.params.block_length \in Nat
  BY <1>1
<1>4. BlockStart(st) <= st.total_len
  BY <1>1, <1>2, <1>3 DEF BlockStart
<1>5. /\ BlockEnd(st) \in Nat /\ BlockStart(st) <= BlockEnd(st) /\ BlockEnd(st) <= st.total_len
      /\ \A i \in 1 .. st.total_len :
           i <= BlockEnd(st) <=> i <= BlockStart(st) + st.params.block_length
  BY <1>1, <1>4 DEF BlockEnd, Smaller
<1>6. IsFiniteSet(Block(st)) /\ Cardinality(Block(st)) = BlockEnd(st) - BlockStart(st)
  <2>1. BlockStart(st) + 1 \in Int /\ BlockEnd(st) \in Int
    BY <1>1, <1>5
  <2>2. /\ IsFiniteSet(Block(st))
        /\ Cardinality(Block(st)) = IF BlockStart(st) + 1 > BlockEnd(st) THEN 0
                                    ELSE BlockEnd(st) - (BlockStart(st) + 1) + 1
    BY <2>1, FS_Interval DEF Block
  <2>3. QED
    BY <1>1, <1>5, <2>2
<1>7. \A i \in 1 .. st.total_len :
        i \in Block(st) <=> BlockStart(st) < i /\ i <= BlockStart(st) + st.params.block_length
  BY <1>1, <1>5 DEF Block
<1>8. Block(st) \subseteq (st.prompt_len + 1) .. st.total_len
  BY <1>1, <1>5 DEF Block
<1>9. QED
  BY <1>5, <1>6, <1>7, <1>8

(* A block nobody has worked on.                                           *)
LEMMA FreshBlock ==
  ASSUME NEW st \in DiffusionRuntimeState, st.block_idx < NumBlocks(st.params),
         st.step_idx_in_block = 0,
         \A i \in 1 .. st.total_len : i > BlockStart(st) => st.x[i] = MaskId
  PROVE  LET n == BlockEnd(st) - BlockStart(st)
         IN  Cardinality(MaskedIn(st, Block(st))) =
               n - Revealed(n, StepsPerBlock(st.params), st.step_idx_in_block)
<1> DEFINE n == BlockEnd(st) - BlockStart(st)
<1>1. /\ st.total_len \in Nat /\ st.prompt_len \in Nat
      /\ BlockStart(st) \in Nat /\ StepsPerBlock(st.params) \in Nat \ {0}
  BY StateFacts
<1>2. /\ BlockEnd(st) \in Nat /\ BlockStart(st) <= BlockEnd(st)
      /\ Cardinality(Block(st)) = n
      /\ Block(st) \subseteq (st.prompt_len + 1) .. st.total_len
  BY BlockFacts
<1>3. \A i \in Block(st) : i \in 1 .. st.total_len /\ i > BlockStart(st)
  BY <1>1, <1>2 DEF Block
<1>4. MaskedIn(st, Block(st)) = Block(st)
  BY <1>3 DEF MaskedIn
<1>5. n \in Nat
  BY <1>1, <1>2
<1> HIDE DEF n
<1>6. Revealed(n, StepsPerBlock(st.params), 0) = 0
  BY <1>1, <1>5, RevealedFacts
<1>7. Cardinality(MaskedIn(st, Block(st))) =
        n - Revealed(n, StepsPerBlock(st.params), st.step_idx_in_block)
  BY <1>2, <1>4, <1>5, <1>6
<1>8. QED
  BY <1>7 DEF n

(* A new request has all its blocks before it.                             *)
LEMMA InitialRight ==
  ASSUME NEW r \in ReqId, requests \in [ReqId -> Request]
  PROVE  LET st == InitialState(r)
         IN  /\ st \in DiffusionRuntimeState /\ st.params = requests[r].params
             /\ NothingAhead(st) /\ Underway(st) /\ BlocksRight(st)
<1> DEFINE st == InitialState(r)
<1>1. st \in DiffusionRuntimeState
  BY InitialStateType, ZenonT(30)
<1>2. /\ st.params = requests[r].params /\ st.block_idx = 0 /\ st.step_idx_in_block = 0
      /\ st.prompt_len = Len(requests[r].input_token_ids)
      /\ \A i \in 1 .. st.total_len : i > st.prompt_len => st.x[i] = MaskId
  <2> DEFINE l == Len(requests[r].input_token_ids)
             g == requests[r].params.gen_length
  <2>1. l \in Nat /\ g \in Nat
    BY DEF Request, Params
  <2>2. /\ st.params = requests[r].params /\ st.block_idx = 0 /\ st.step_idx_in_block = 0
        /\ st.prompt_len = l /\ st.total_len = l + g
    BY Zenon DEF InitialState
  <2>3. st.x = [i \in 1 .. l + g |-> IF i <= l THEN requests[r].input_token_ids[i] ELSE MaskId]
    BY Zenon DEF InitialState
  <2> HIDE DEF st, l, g
  <2>4. ASSUME NEW i \in 1 .. l + g, i > l PROVE st.x[i] = MaskId
    BY <2>1, <2>3, <2>4
  <2>5. \A i \in 1 .. st.total_len : i > st.prompt_len => st.x[i] = MaskId
    BY <2>2, <2>4, Zenon
  <2>6. QED
    BY <2>2, <2>5, Zenon DEF l
<1> HIDE DEF st
<1>3. /\ st.prompt_len \in Nat /\ st.total_len \in Nat
      /\ st.params \in Params /\ st.params.gen_length \in Nat /\ st.params.block_length \in Nat
      /\ st.total_len = st.prompt_len + st.params.gen_length
      /\ NumBlocks(st.params) \in Nat \ {0} /\ StepsPerBlock(st.params) \in Nat \ {0}
  BY <1>1, StateFacts
<1>4. BlockStart(st) = st.prompt_len
  BY <1>2, <1>3 DEF BlockStart
<1>5. NothingAhead(st)
  BY <1>2, <1>3, <1>4 DEF NothingAhead
<1>6. Underway(st)
  <2>1. InBudget(st)
    BY <1>2, <1>3 DEF InBudget
  <2>2. ASSUME HeadParamsAccepted(st.params)
        PROVE  OutputMasks(st) # {}
    <3>1. st.params.gen_length # 0
      BY <2>2 DEF HeadParamsAccepted
    <3>2. /\ st.prompt_len + 1 \in (st.prompt_len + 1) .. st.total_len
          /\ st.prompt_len + 1 \in 1 .. st.total_len /\ st.prompt_len + 1 > st.prompt_len
      BY <1>3, <3>1
    <3>3. st.prompt_len + 1 \in OutputMasks(st)
      BY <1>2, <3>2, ZenonT(30) DEF OutputMasks, MaskedIn
    <3>4. QED
      BY <3>3
  <2>3. QED
    BY <2>1, <2>2 DEF Underway
<1>7. BlocksRight(st)
  <2>1. \A i \in (st.prompt_len + 1) .. st.total_len : ~(i <= BlockStart(st))
    BY <1>3, <1>4
  <2>2. st.block_idx < NumBlocks(st.params)
    BY <1>2, <1>3
  <2>3. \A i \in 1 .. st.total_len : i > BlockStart(st) => st.x[i] = MaskId
    BY <1>2, <1>4, ZenonT(30)
  <2>4. QED
    BY <1>1, <1>2, <2>1, <2>2, <2>3, FreshBlock DEF BlocksRight
<1>8. QED
  BY <1>1, <1>2, <1>5, <1>6, <1>7 DEF st

-----------------------------------------------------------------------------
(* A denoising step.                                                       *)

(* Where the step leaves the pointers.                                     *)
LEMMA AdvanceMoves ==
  ASSUME NEW st \in DiffusionRuntimeState, InBudget(st), NEW y \in NewTexts(st)
  PROVE  LET nst == Advance(st, y)
         IN  /\ nst \in DiffusionRuntimeState /\ nst.x = y
             /\ nst.params = st.params
             /\ nst.prompt_len = st.prompt_len /\ nst.total_len = st.total_len
             /\ \/ /\ st.step_idx_in_block + 1 < StepsPerBlock(st.params)
                   /\ nst.step_idx_in_block = st.step_idx_in_block + 1
                   /\ nst.block_idx = st.block_idx
                   /\ BlockStart(nst) = BlockStart(st) /\ BlockEnd(nst) = BlockEnd(st)
                \/ /\ st.step_idx_in_block + 1 = StepsPerBlock(st.params)
                   /\ nst.step_idx_in_block = 0
                   /\ nst.block_idx = st.block_idx + 1
                   /\ BlockStart(nst) = BlockStart(st) + st.params.block_length
<1> DEFINE nst == Advance(st, y)
           wrap == st.step_idx_in_block + 1 >= StepsPerBlock(st.params)
<1>1. nst \in DiffusionRuntimeState
  BY AdvanceType
<1>2. /\ nst.x = y /\ nst.params = st.params
      /\ nst.prompt_len = st.prompt_len /\ nst.total_len = st.total_len
      /\ nst.block_idx = IF wrap THEN st.block_idx + 1 ELSE st.block_idx
      /\ nst.step_idx_in_block = IF wrap THEN 0 ELSE st.step_idx_in_block + 1
  BY AdvanceFields
<1> HIDE DEF nst
<1>3. /\ st.block_idx \in Nat /\ st.step_idx_in_block \in Nat /\ st.prompt_len \in Nat
      /\ st.params.block_length \in Nat /\ StepsPerBlock(st.params) \in Nat \ {0}
      /\ st.step_idx_in_block < StepsPerBlock(st.params)
  BY StateFacts, Zenon DEF InBudget
<1>4. CASE ~wrap
  <2>1. st.step_idx_in_block + 1 < StepsPerBlock(st.params)
    BY <1>3, <1>4
  <2>2. nst.block_idx = st.block_idx /\ nst.step_idx_in_block = st.step_idx_in_block + 1
    BY <1>2, <1>4, Zenon
  <2>3. BlockStart(nst) = BlockStart(st) /\ BlockEnd(nst) = BlockEnd(st)
    BY <1>2, <2>2, ZenonT(30) DEF BlockStart, BlockEnd
  <2>4. QED
    BY <1>1, <1>2, <2>1, <2>2, <2>3, Zenon DEF nst
<1>5. CASE wrap
  <2>1. st.step_idx_in_block + 1 = StepsPerBlock(st.params)
    BY <1>3, <1>5
  <2>2. /\ (st.block_idx + 1) * st.params.block_length =
             st.block_idx * st.params.block_length + st.params.block_length
        /\ st.block_idx * st.params.block_length \in Nat
    BY <1>3
  <2>3. BlockStart(nst) = BlockStart(st) + st.params.block_length
    BY <1>2, <1>3, <1>5, <2>2 DEF BlockStart
  <2>4. QED
    BY <1>1, <1>2, <1>5, <2>1, <2>3, Zenon DEF nst
<1>6. QED
  BY <1>4, <1>5, Zenon

(* It reveals nothing behind its block.                                    *)
LEMMA AdvanceAhead ==
  ASSUME NEW st \in DiffusionRuntimeState, InBudget(st), NothingAhead(st),
         NEW y \in NewTexts(st)
  PROVE  /\ \A i \in 1 .. st.total_len :
              i > BlockStart(st) + st.params.block_length => y[i] = MaskId
         /\ NothingAhead(Advance(st, y))
<1> DEFINE nst == Advance(st, y)
<1>1. /\ st.total_len \in Nat /\ BlockStart(st) \in Nat /\ st.params.block_length \in Nat
      /\ DOMAIN st.x = 1 .. st.total_len
  BY StateFacts
<1>2. \A i \in 1 .. st.total_len : y[i] # st.x[i] => i \in Block(st)
  <2>1. Len(st.x) = st.total_len
    BY DEF DiffusionRuntimeState
  <2>2. QED
    BY <2>1, NewTextsFacts
<1>3. \A i \in 1 .. st.total_len :
        i \in Block(st) => i <= BlockStart(st) + st.params.block_length
  BY BlockFacts DEF InBudget
<1>4. \A i \in 1 .. st.total_len :
        i > BlockStart(st) + st.params.block_length => y[i] = MaskId
  <2>1. \A i \in 1 .. st.total_len :
          i > BlockStart(st) + st.params.block_length => st.x[i] = MaskId
    BY Zenon DEF NothingAhead
  <2>2. ASSUME NEW i \in 1 .. st.total_len, i > BlockStart(st) + st.params.block_length
        PROVE  i \notin Block(st)
    BY <1>1, <1>3, <2>2
  <2>3. QED
    BY <1>2, <2>1, <2>2, Zenon
<1>5. /\ nst.x = y /\ nst.params = st.params /\ nst.total_len = st.total_len
      /\ \/ BlockStart(nst) = BlockStart(st)
         \/ BlockStart(nst) = BlockStart(st) + st.params.block_length
  BY AdvanceMoves
<1> HIDE DEF nst
<1>6. NothingAhead(nst)
  BY <1>1, <1>4, <1>5 DEF NothingAhead
<1>7. QED
  BY <1>4, <1>6 DEF nst

(* It stays within the steps of its request.                               *)
LEMMA AdvanceBudget ==
  ASSUME NEW st \in DiffusionRuntimeState, InBudget(st), NEW y \in NewTexts(st)
  PROVE  LET nst == Advance(st, y)
         IN  /\ nst.block_idx <= NumBlocks(st.params)
             /\ nst.step_idx_in_block < StepsPerBlock(st.params)
             /\ StepsTaken(nst) <= NumBlocks(st.params) * StepsPerBlock(st.params)
<1> DEFINE nst == Advance(st, y)
           s == StepsPerBlock(st.params)
           n == NumBlocks(st.params)
<1>1. /\ st.block_idx \in Nat /\ st.step_idx_in_block \in Nat /\ s \in Nat \ {0} /\ n \in Nat
      /\ st.block_idx < n /\ st.step_idx_in_block < s
  BY StateFacts DEF InBudget
<1>2. nst.params = st.params
  BY AdvanceMoves
<1>3. \/ /\ st.step_idx_in_block + 1 < s /\ nst.step_idx_in_block = st.step_idx_in_block + 1
         /\ nst.block_idx = st.block_idx
      \/ /\ nst.step_idx_in_block = 0
         /\ nst.block_idx = st.block_idx + 1
  BY AdvanceMoves, ZenonT(30)
<1>4. StepsTaken(nst) = nst.block_idx * s + nst.step_idx_in_block
  BY <1>2 DEF StepsTaken
<1> HIDE DEF nst, s, n
<1>5. /\ (st.block_idx + 1) * s <= n * s /\ n * s \in Nat
      /\ (st.block_idx + 1) * s \in Nat
  BY <1>1, TimesMonotone
<1>6. (st.block_idx + 1) * s = st.block_idx * s + s /\ st.block_idx * s \in Nat
  BY <1>1
<1>7. /\ nst.block_idx <= n /\ nst.step_idx_in_block < s
  BY <1>1, <1>3
<1>8. StepsTaken(nst) <= n * s
  <2>1. CASE /\ st.step_idx_in_block + 1 < s /\ nst.step_idx_in_block = st.step_idx_in_block + 1
             /\ nst.block_idx = st.block_idx
    <3>1. StepsTaken(nst) = st.block_idx * s + (st.step_idx_in_block + 1)
      BY <1>4, <2>1
    <3>2. QED
      BY <1>1, <1>5, <1>6, <2>1, <3>1
  <2>2. CASE nst.step_idx_in_block = 0 /\ nst.block_idx = st.block_idx + 1
    <3>1. StepsTaken(nst) = (st.block_idx + 1) * s + 0
      BY <1>4, <2>2
    <3>2. QED
      BY <1>5, <3>1
  <2>3. QED
    BY <1>3, <2>1, <2>2
<1>9. QED
  BY <1>7, <1>8 DEF nst, s, n

(* If the network does not sample the mask token, the step unmasks exactly *)
(* its quota of the block.                                                 *)
LEMMA NewTextsMasks ==
  ASSUME NEW st \in DiffusionRuntimeState, InBudget(st), BlocksRight(st),
         MaskId \notin Vocab, NEW y \in NewTexts(st)
  PROVE  LET n == BlockEnd(st) - BlockStart(st)
         IN  /\ IsFiniteSet({i \in Block(st) : y[i] = MaskId})
             /\ Cardinality({i \in Block(st) : y[i] = MaskId}) =
                  n - Revealed(n, StepsPerBlock(st.params), st.step_idx_in_block + 1)
<1> DEFINE n == BlockEnd(st) - BlockStart(st)
           S == StepsPerBlock(st.params)
           s == st.step_idx_in_block
           M == MaskedIn(st, Block(st))
           q == NumTransferTokens(n, S, s)
<1>1. /\ st.x \in Seq(Token) /\ DOMAIN st.x = 1 .. st.total_len /\ st.prompt_len \in Nat
      /\ S \in Nat \ {0} /\ s \in Nat /\ s < S /\ BlockStart(st) \in Nat /\ st.total_len \in Nat
  BY StateFacts DEF InBudget
<1>2. /\ BlockEnd(st) \in Nat /\ BlockStart(st) <= BlockEnd(st)
      /\ IsFiniteSet(Block(st)) /\ Block(st) \subseteq (st.prompt_len + 1) .. st.total_len
  BY BlockFacts DEF InBudget
<1>3. n \in Nat
  BY <1>1, <1>2
<1>4. PICK sel \in Transfers(st) : \E tok \in [sel -> Vocab] :
         y = [i \in DOMAIN st.x |-> IF i \in sel THEN tok[i] ELSE st.x[i]]
  BY DEF NewTexts
<1>5. PICK tok \in [sel -> Vocab] :
         y = [i \in DOMAIN st.x |-> IF i \in sel THEN tok[i] ELSE st.x[i]]
  BY <1>4
<1>6. sel \subseteq M /\ Cardinality(sel) = Smaller(Quota(st), Cardinality(M))
  BY DEF Transfers
<1>7. Block(st) \subseteq DOMAIN st.x
  BY <1>1, <1>2
<1>8. {i \in Block(st) : y[i] = MaskId} = M \ sel
  <2>1. \A i \in sel : tok[i] # MaskId
    BY <1>5
  <2>2. \A i \in Block(st) : y[i] = IF i \in sel THEN tok[i] ELSE st.x[i]
    BY <1>5, <1>7
  <2>3. QED
    BY <1>6, <2>1, <2>2 DEF MaskedIn
<1>9. IsFiniteSet(M) /\ M \in SUBSET Block(st)
  <2>1. M \in SUBSET Block(st)
    BY DEF MaskedIn
  <2>2. QED
    BY <1>2, <2>1, FS_Subset
<1>10. Cardinality(M) = n - Revealed(n, S, s)
  BY DEF BlocksRight, InBudget
<1>11. Quota(st) = q
  BY <1>1, <1>2, <1>3 DEF Quota
<1> HIDE DEF M, n, S, s, q
<1>12. /\ Revealed(n, S, s + 1) = Revealed(n, S, s) + q /\ Revealed(n, S, s + 1) <= n
       /\ Revealed(n, S, s) \in Nat /\ q \in Nat
  BY <1>1, <1>3, RevealedFacts, ZenonT(30) DEF q
<1>13. Cardinality(sel) = q
  BY <1>3, <1>6, <1>10, <1>11, <1>12 DEF Smaller
<1>14. M \cap sel = sel
  BY <1>6
<1>15. IsFiniteSet(M \ sel) /\ Cardinality(M \ sel) = Cardinality(M) - Cardinality(sel)
  BY <1>9, <1>14, FS_Difference
<1>16. Cardinality(M \ sel) = n - Revealed(n, S, s + 1)
  BY <1>3, <1>10, <1>12, <1>13, <1>15
<1>17. QED
  BY <1>8, <1>15, <1>16, Zenon DEF n, S, s

LEMMA AdvanceBlocks ==
  ASSUME NEW st \in DiffusionRuntimeState, InBudget(st), NothingAhead(st), BlocksRight(st),
         MaskId \notin Vocab, NEW y \in NewTexts(st)
  PROVE  BlocksRight(Advance(st, y))
<1> DEFINE nst == Advance(st, y)
           n == BlockEnd(st) - BlockStart(st)
           S == StepsPerBlock(st.params)
           s == st.step_idx_in_block
           W == {i \in Block(st) : y[i] = MaskId}
<1>1. /\ st.total_len \in Nat /\ st.prompt_len \in Nat /\ BlockStart(st) \in Nat
      /\ st.params.block_length \in Nat /\ S \in Nat \ {0} /\ s \in Nat /\ s < S
  BY StateFacts DEF InBudget
<1>2. /\ BlockEnd(st) \in Nat /\ BlockStart(st) <= BlockEnd(st)
      /\ \A i \in 1 .. st.total_len :
           i \in Block(st) <=>
             BlockStart(st) < i /\ i <= BlockStart(st) + st.params.block_length
  BY BlockFacts, Zenon DEF InBudget
<1>3. IsFiniteSet(W) /\ Cardinality(W) = n - Revealed(n, S, s + 1) /\ n \in Nat
  <2>1. IsFiniteSet(W) /\ Cardinality(W) = n - Revealed(n, S, s + 1)
    BY NewTextsMasks, Zenon
  <2>2. n \in Nat
    BY <1>1, <1>2
  <2>3. QED
    BY <2>1, <2>2, Zenon
<1>4. /\ nst \in DiffusionRuntimeState /\ nst.x = y /\ nst.params = st.params
      /\ nst.prompt_len = st.prompt_len /\ nst.total_len = st.total_len
      /\ \/ /\ s + 1 < S /\ nst.step_idx_in_block = s + 1 /\ nst.block_idx = st.block_idx
            /\ BlockStart(nst) = BlockStart(st) /\ BlockEnd(nst) = BlockEnd(st)
         \/ /\ s + 1 = S /\ nst.step_idx_in_block = 0
            /\ BlockStart(nst) = BlockStart(st) + st.params.block_length
  BY AdvanceMoves, Zenon
<1>5. ASSUME NEW i \in (st.prompt_len + 1) .. st.total_len, i <= BlockStart(st)
      PROVE  y[i] # MaskId
  <2>1. i \in 1 .. st.total_len /\ i \notin Block(st)
    <3>1. i \in 1 .. st.total_len /\ ~(BlockStart(st) < i)
      BY <1>1, <1>5
    <3>2. QED
      BY <1>2, <3>1, Zenon
  <2>2. st.x[i] # MaskId
    BY <1>5 DEF BlocksRight
  <2>3. Len(st.x) = st.total_len
    BY Zenon DEF DiffusionRuntimeState
  <2>4. y[i] = st.x[i]
    BY <2>1, <2>3, NewTextsFacts
  <2>5. QED
    BY <2>2, <2>4
<1> HIDE DEF nst
<1>6. CASE /\ s + 1 < S /\ nst.step_idx_in_block = s + 1
           /\ BlockStart(nst) = BlockStart(st) /\ BlockEnd(nst) = BlockEnd(st)
  <2>1. MaskedIn(nst, Block(nst)) = W
    BY <1>4, <1>6, Zenon DEF MaskedIn, Block
  <2>2. QED
    BY <1>3, <1>4, <1>5, <1>6, <2>1, Zenon DEF BlocksRight, nst
<1>7. CASE /\ s + 1 = S /\ nst.step_idx_in_block = 0
           /\ BlockStart(nst) = BlockStart(st) + st.params.block_length
  <2>1. Revealed(n, S, S) = n
    <3> HIDE DEF n, S, s
    <3>1. QED
      BY <1>1, <1>3, RevealedFacts
  <2>2. W = {}
    <3> HIDE DEF n, S, s, W
    <3>1. Cardinality(W) = 0
      <4>1. s + 1 = S
        BY <1>7, Zenon
      <4>2. Cardinality(W) = n - n /\ n \in Nat
        BY <1>3, <2>1, <4>1, Zenon
      <4>3. QED
        BY <4>2
    <3>2. QED
      BY <1>3, <3>1, FS_EmptySet, Zenon
  <2>3. ASSUME NEW i \in (nst.prompt_len + 1) .. nst.total_len, i <= BlockStart(nst)
        PROVE  nst.x[i] # MaskId
    <3>1. i \in (st.prompt_len + 1) .. st.total_len /\ i \in 1 .. st.total_len
      <4>1. i \in (st.prompt_len + 1) .. st.total_len
        BY <1>4, <2>3, ZenonT(30)
      <4>2. i \in 1 .. st.total_len
        BY <1>1, <4>1
      <4>3. QED
        BY <4>1, <4>2, Zenon
    <3>2. CASE i <= BlockStart(st)
      BY <1>4, <1>5, <3>1, <3>2, Zenon
    <3>3. CASE i > BlockStart(st)
      <4>1. i \in Block(st)
        BY <1>1, <1>2, <1>7, <2>3, <3>1, <3>3, ZenonT(30)
      <4>2. QED
        BY <1>4, <2>2, <4>1, Zenon
    <3>4. QED
      BY <1>1, <3>1, <3>2, <3>3
  <2>4. \A i \in 1 .. nst.total_len : i > BlockStart(nst) => nst.x[i] = MaskId
    BY <1>4, <1>7, AdvanceAhead
  <2>5. nst.block_idx < NumBlocks(nst.params) =>
          Cardinality(MaskedIn(nst, Block(nst))) =
            (BlockEnd(nst) - BlockStart(nst))
              - Revealed(BlockEnd(nst) - BlockStart(nst), StepsPerBlock(nst.params),
                         nst.step_idx_in_block)
    BY <1>4, <1>7, <2>4, FreshBlock, Zenon
  <2>6. QED
    BY <2>3, <2>5, Zenon DEF BlocksRight, nst
<1>8. QED
  BY <1>4, <1>6, <1>7, Zenon

(* An accepted request is either on its way after the step or settled.     *)
LEMMA AdvanceOutcome ==
  ASSUME NEW st \in DiffusionRuntimeState, InBudget(st), HeadParamsAccepted(st.params),
         NEW y \in NewTexts(st)
  PROVE  IF Finished(Advance(st, y)) THEN Settled(Advance(st, y)) ELSE Underway(Advance(st, y))
<1> DEFINE nst == Advance(st, y)
<1>1. /\ nst \in DiffusionRuntimeState /\ nst.params = st.params
      /\ nst.block_idx <= NumBlocks(st.params)
      /\ nst.step_idx_in_block < StepsPerBlock(st.params)
      /\ StepsTaken(nst) <= NumBlocks(st.params) * StepsPerBlock(st.params)
  BY AdvanceMoves, AdvanceBudget
<1> HIDE DEF nst
<1>2. CASE Finished(nst)
  BY <1>1, <1>2 DEF Settled, nst
<1>3. CASE ~Finished(nst)
  <2>1. nst.block_idx \in Nat /\ NumBlocks(nst.params) \in Nat
    BY <1>1, StateFacts
  <2>2. nst.block_idx < NumBlocks(nst.params)
    BY <1>3, <2>1 DEF Finished
  <2>3. OutputMasks(nst) # {}
    BY <1>3 DEF Finished, OutputMasks, MaskedIn
  <2>4. QED
    BY <1>1, <1>3, <2>2, <2>3, Zenon DEF Underway, InBudget, nst
<1>4. QED
  BY <1>2, <1>3, ZenonT(30) DEF nst

(* A settled text has no mask left.                                        *)
LEMMA SettledComplete ==
  ASSUME NEW st \in DiffusionRuntimeState, Settled(st), BlocksRight(st)
  PROVE  MaskId \notin Range(Tail_token_ids(st))
<1>1. /\ st.prompt_len \in Nat /\ st.total_len \in Nat /\ st.params \in Params
      /\ st.params.gen_length \in Nat /\ st.params.block_length \in Nat
      /\ st.total_len = st.prompt_len + st.params.gen_length
      /\ st.block_idx \in Nat /\ NumBlocks(st.params) \in Nat
  BY StateFacts
<1>2. \A i \in (st.prompt_len + 1) .. st.total_len : st.x[i] # MaskId
  <2>1. CASE \A i \in (st.prompt_len + 1) .. st.total_len : st.x[i] # MaskId
    BY <2>1, Zenon
  <2>2. CASE st.block_idx >= NumBlocks(st.params)
    <3>1. st.block_idx = NumBlocks(st.params)
      BY <1>1, <2>2 DEF Settled
    <3>2. BlockStart(st) = st.total_len
      BY <1>1, <3>1, AcceptedBlocks, Zenon DEF BlockStart, Settled
    <3>3. QED
      BY <1>1, <3>2 DEF BlocksRight
  <2>3. QED
    BY <2>1, <2>2 DEF Settled, Finished
<1>3. ASSUME NEW j \in 1 .. st.params.gen_length
      PROVE  Tail_token_ids(st)[j] # MaskId
  <2>1. st.prompt_len + j \in (st.prompt_len + 1) .. st.total_len
    BY <1>1
  <2>2. QED
    BY <1>2, <2>1 DEF Tail_token_ids
<1>4. DOMAIN Tail_token_ids(st) = 1 .. st.params.gen_length
  BY DEF Tail_token_ids
<1>5. QED
  BY <1>3, <1>4, Zenon DEF Range

-----------------------------------------------------------------------------
(* The steps of the engine and the runtime states.                         *)

LEMMA StepTaken ==
  ASSUME TypeOK, AllKept, Step
  PROVE  LET r == running[1]
         IN  /\ r \in ReqId /\ r \in DOMAIN states /\ r \notin Range(emitted)
             /\ states[r] \in DiffusionRuntimeState /\ HeadParamsAccepted(states[r].params)
             /\ UNCHANGED <<requests, client, received>>
             /\ DOMAIN states' = DOMAIN states
             /\ \A q \in DOMAIN states : q # r => states'[q] = states[q]
             /\ \E y \in NewTexts(states[r]) :
                  /\ states'[r] = Advance(states[r], y)
                  /\ IF Finished(Advance(states[r], y))
                     THEN /\ Range(emitted') = Range(emitted) \cup {r}
                          /\ output_queue' = [output_queue EXCEPT ![Client0] =
                               Append(output_queue[Client0],
                                      Output(r, Tail_token_ids(Advance(states[r], y))))]
                     ELSE UNCHANGED <<emitted, output_queue>>
<1> DEFINE r == running[1]
<1>1. PICK h \in Batch : /\ IsBatchHead(h) /\ RunnerAccepts(h)
                         /\ \E y \in NewTexts(states[running[h]]) : ExecuteDiffusionOnce(h, y)
  BY DEF Step
<1>2. h = 1 /\ running # <<>>
  BY <1>1, HeadIsFirst
<1>3. PICK y \in NewTexts(states[r]) : ExecuteDiffusionOnce(1, y)
  BY <1>1, <1>2
<1>4. /\ r \in DOMAIN states /\ r \in ReqId /\ states[r] \in DiffusionRuntimeState
      /\ 1 \in 1 .. Len(running)
  BY <1>2 DEF Batch, TypeOK
<1>5. HeadParamsAccepted(states[r].params)
  BY <1>1, <1>2 DEF RunnerAccepts
<1>6. r \notin Range(emitted)
  <2>1. emitted \in Seq(ReqId) /\ running \in Seq(ReqId) /\ waiting \in Seq(ReqId)
    BY DEF TypeOK
  <2>2. r \in Range(running)
    BY <1>4, <2>1 DEF Range
  <2>3. r \in Range(running \o waiting)
    BY <2>1, <2>2, RangeConcat
  <2>4. /\ IsInjective(emitted \o (running \o waiting))
        /\ running \o waiting \in Seq(ReqId)
    BY AcceptedFacts, Zenon DEF AllKept
  <2>5. Range(emitted) \cap Range(running \o waiting) = {}
    BY <2>1, <2>4, RangeConcat, ZenonT(30)
  <2>6. QED
    BY <2>3, <2>5
<1>7. /\ states' = Put(states, r, Advance(states[r], y))
      /\ UNCHANGED <<requests, client, received>>
      /\ IF Finished(Advance(states[r], y))
         THEN /\ emitted' = Append(emitted, r)
              /\ output_queue' = [output_queue EXCEPT ![Client0] =
                   Append(output_queue[Client0],
                          Output(r, Tail_token_ids(Advance(states[r], y))))]
         ELSE UNCHANGED <<emitted, output_queue>>
  BY <1>3 DEF ExecuteDiffusionOnce, apply_update, clientVars
<1>8. Range(Append(emitted, r)) = Range(emitted) \cup {r}
  <2> HIDE DEF r
  <2>1. QED
    BY <1>4, RangeAppend DEF TypeOK
<1>9. /\ DOMAIN states' = DOMAIN states /\ states'[r] = Advance(states[r], y)
      /\ \A q \in DOMAIN states : q # r => states'[q] = states[q]
  <2> HIDE DEF r
  <2>1. QED
    BY <1>4, <1>7, ZenonT(30) DEF Put
<1>10. QED
  BY <1>3, <1>4, <1>5, <1>6, <1>7, <1>8, <1>9, Zenon

LEMMA AddTaken ==
  ASSUME TypeOK, AllKept, HandleAdd
  PROVE  LET r == Head(input_queue).req_id
         IN  /\ r \in ReqId /\ r \notin DOMAIN states /\ r \notin Range(emitted)
             /\ UNCHANGED <<requests, emitted, output_queue, client, received>>
             /\ DOMAIN states' = DOMAIN states \cup {r}
             /\ states'[r] = InitialState(r)
             /\ \A q \in DOMAIN states : states'[q] = states[q]
<1> DEFINE r == Head(input_queue).req_id
<1>1. r \in ReqId
  BY InputHead DEF HandleAdd
<1>2. 1 \in PendingAdds /\ input_queue[1] = Head(input_queue)
  BY DEF HandleAdd, PendingAdds, TypeOK
<1>3. r \notin Range(Accepted)
  BY <1>2 DEF AllKept
<1>4. r \notin DOMAIN states /\ r \notin Range(emitted)
  BY <1>3, AcceptedFacts, Zenon DEF AllKept
<1>5. /\ states' = Put(states, r, InitialState(r))
      /\ UNCHANGED <<requests, emitted, output_queue, client, received>>
  BY DEF HandleAdd, add_request, clientVars
<1> HIDE DEF r
<1>6. QED
  BY <1>1, <1>4, <1>5, Zenon DEF Put, r

(* The other steps leave the states and the emitted ids alone.             *)
LEMMA OthersRest ==
  ASSUME TypeOK, AllKept, [Next]_vars, ~HandleAdd, ~Step
  PROVE  UNCHANGED <<requests, states, emitted>>
<1>1. CASE Migrate
  BY <1>1, MigrateMoves, ZenonT(30) DEF Migrate
<1>2. CASE ~Migrate
  BY <1>2 DEF Next, Main, Submit, Cancel, ProcessOutput, HandleAbort, BeginStep,
              MigrateRaises, StepRaises, Die, Idle, vars, schedVars
<1>3. QED
  BY <1>1, <1>2

(* No step changes the request, the state or the standing of an emitted    *)
(* request.                                                                *)
LEMMA EmittedStays ==
  ASSUME TypeOK, AllKept, [Next]_vars, NEW r \in Range(emitted)
  PROVE  r \in Range(emitted') /\ states'[r] = states[r]
<1>1. r \in DOMAIN states
  BY AcceptedFacts, Zenon DEF AllKept
<1>2. CASE Step
  BY <1>1, <1>2, StepTaken, Zenon
<1>3. CASE HandleAdd
  BY <1>1, <1>3, AddTaken, Zenon
<1>4. CASE ~Step /\ ~HandleAdd
  BY <1>4, OthersRest
<1>5. QED
  BY <1>2, <1>3, <1>4

LEMMA TextInitial == Init => TextInv
<1>1. ASSUME Init PROVE states = <<>>
  BY <1>1, Zenon DEF Init, SchedInit
<1>2. ASSUME states = <<>> PROVE DOMAIN states = {}
  BY <1>2
<1>3. QED
  BY <1>1, <1>2, Zenon DEF TextInv

LEMMA StateKept ==
  ASSUME NEW r \in DOMAIN states, StateRight(r), UNCHANGED requests, states'[r] = states[r],
         r \in Range(emitted') <=> r \in Range(emitted)
  PROVE  StateRight(r)'
BY Zenon DEF StateRight

LEMMA TextNext == TypeOK /\ AllKept /\ TextInv /\ [Next]_vars => TextInv'
<1>1. SUFFICES ASSUME TypeOK, AllKept, TextInv, [Next]_vars,
                      NEW r, r \in DOMAIN states'
               PROVE  StateRight(r)'
  BY DEF TextInv
<1>2. CASE HandleAdd
  <2> DEFINE a == Head(input_queue).req_id
  <2>1. /\ a \in ReqId /\ a \notin Range(emitted) /\ UNCHANGED <<requests, emitted>>
        /\ DOMAIN states' = DOMAIN states \cup {a} /\ states'[a] = InitialState(a)
        /\ \A q \in DOMAIN states : states'[q] = states[q]
    BY <1>1, <1>2, AddTaken
  <2> HIDE DEF a
  <2>2. CASE r \in DOMAIN states
    BY <1>1, <2>1, <2>2, StateKept, Zenon DEF TextInv
  <2>3. CASE r = a
    <3>1. /\ states'[r].params = requests[r].params /\ NothingAhead(states'[r])
          /\ Underway(states'[r]) /\ BlocksRight(states'[r])
      BY <1>1, <2>1, <2>3, InitialRight, Zenon DEF TypeOK
    <3>2. QED
      BY <2>1, <2>3, <3>1, Zenon DEF StateRight
  <2>4. QED
    BY <1>1, <2>1, <2>2, <2>3, ZenonT(30)
<1>3. CASE Step
  <2> DEFINE b == running[1]
             st == states[b]
  <2>1. /\ b \in DOMAIN states /\ b \notin Range(emitted)
        /\ st \in DiffusionRuntimeState /\ HeadParamsAccepted(st.params)
        /\ UNCHANGED requests /\ DOMAIN states' = DOMAIN states
        /\ \A q \in DOMAIN states : q # b => states'[q] = states[q]
    BY <1>1, <1>3, StepTaken, Zenon
  <2>2. PICK y \in NewTexts(st) :
          /\ states'[b] = Advance(st, y)
          /\ IF Finished(Advance(st, y)) THEN Range(emitted') = Range(emitted) \cup {b}
             ELSE UNCHANGED emitted
    BY <1>1, <1>3, StepTaken, Zenon
  <2>3. StateRight(b) /\ StateRight(r)
    BY <1>1, <2>1, Zenon DEF TextInv
  <2>4. CASE r # b
    <3> HIDE DEF b
    <3>1. r \in Range(emitted') <=> r \in Range(emitted)
      BY <2>2, <2>4
    <3>2. QED
      BY <1>1, <2>1, <2>3, <2>4, <3>1, StateKept, ZenonT(30)
  <2>5. CASE r = b
    <3>1. /\ NothingAhead(st) /\ InBudget(st) /\ st.params = requests[b].params
          /\ MaskId \notin Vocab => BlocksRight(st)
      BY <2>1, <2>3, ZenonT(30) DEF StateRight, Underway
    <3> HIDE DEF b, st
    <3>2. NothingAhead(Advance(st, y)) /\ Advance(st, y).params = st.params
      BY <2>1, <3>1, AdvanceAhead, AdvanceMoves, Zenon
    <3>3. MaskId \notin Vocab => BlocksRight(Advance(st, y))
      BY <2>1, <3>1, AdvanceBlocks, Zenon
    <3>4. IF Finished(Advance(st, y)) THEN Settled(Advance(st, y)) ELSE Underway(Advance(st, y))
      BY <2>1, <3>1, AdvanceOutcome, Zenon
    <3>5. b \in Range(emitted') <=> Finished(Advance(st, y))
      BY <2>1, <2>2
    <3>6. QED
      BY <2>1, <2>2, <2>5, <3>1, <3>2, <3>3, <3>4, <3>5, Zenon DEF StateRight
  <2>6. QED
    BY <2>4, <2>5
<1>4. CASE ~HandleAdd /\ ~Step
  <2>1. UNCHANGED <<requests, states, emitted>>
    BY <1>1, <1>4, OthersRest
  <2>2. QED
    BY <1>1, <2>1, StateKept DEF TextInv
<1>5. QED
  BY <1>2, <1>3, <1>4

LEMMA TextHolds == Spec => []TextInv
<1>1. QED
  BY TypeCorrect, KeptAlways, TextInitial, TextNext, PTL DEF Spec

(* BlocksInOrder: the runner reveals nothing after the block it works on,  *)
(* whatever the parameters and the samples of the network.                 *)
THEOREM InOrder == Spec => []BlocksInOrder
<1>1. TextInv => BlocksInOrder
  BY DEF TextInv, StateRight, NothingAhead, BlocksInOrder
<1>2. QED
  BY <1>1, TextHolds, PTL

(* BlocksComplete: if the network never samples the mask token, no block   *)
(* is left behind with a mask in it, and the masks of the current block    *)
(* are those that the quotas of its remaining steps still owe.             *)
THEOREM Quotas == Spec => []BlocksComplete
<1>1. TextInv => BlocksComplete
  BY Zenon DEF TextInv, StateRight, BlocksRight, BlocksComplete
<1>2. QED
  BY <1>1, TextHolds, PTL

(* WithinBudget: a request that runs has a block and a step left, and one  *)
(* that was emitted took no more steps than its parameters allow.          *)
THEOREM Budget == Spec => []WithinBudget
<1>1. TypeOK /\ AllKept /\ TextInv => WithinBudget
  <2>1. SUFFICES ASSUME TypeOK, AllKept, TextInv PROVE WithinBudget
    OBVIOUS
  <2>2. emitted \in Seq(ReqId) /\ running \in Seq(ReqId) /\ waiting \in Seq(ReqId)
    BY <2>1, ZenonT(30) DEF TypeOK
  <2>3. ASSUME NEW i \in 1 .. Len(running) PROVE InBudget(states[running[i]])
    <3>1. running[i] \in Range(running)
      BY <2>2 DEF Range
    <3>2. running[i] \in Range(running \o waiting)
      BY <2>2, <3>1, RangeConcat
    <3>3. /\ IsInjective(emitted \o (running \o waiting))
          /\ running \o waiting \in Seq(ReqId)
      BY <2>1, AcceptedFacts, Zenon DEF AllKept
    <3>4. running[i] \notin Range(emitted)
      BY <2>2, <3>2, <3>3, RangeConcat, ZenonT(30)
    <3>5. running[i] \in DOMAIN states
      BY <2>1, <3>1, AcceptedFacts, ZenonT(30) DEF AllKept
    <3>6. QED
      BY <2>1, <3>4, <3>5, ZenonT(30) DEF TextInv, StateRight, Underway
  <2>4. ASSUME NEW i \in 1 .. Len(emitted) PROVE Settled(states[emitted[i]])
    <3>1. emitted[i] \in Range(emitted)
      BY <2>2 DEF Range
    <3>2. emitted[i] \in DOMAIN states
      BY <2>1, <3>1, AcceptedFacts DEF AllKept
    <3>3. QED
      BY <2>1, <3>1, <3>2 DEF TextInv, StateRight
  <2>5. QED
    BY <2>3, <2>4 DEF WithinBudget, InBudget, Settled
<1>2. QED
  BY <1>1, TypeCorrect, KeptAlways, TextHolds, PTL

-----------------------------------------------------------------------------
(* What the callers receive.                                               *)

LEMMA HeadAndTail ==
  ASSUME NEW S, NEW s \in Seq(S), s # <<>>
  PROVE  Head(s) \in Range(s) /\ Range(Tail(s)) \subseteq Range(s)
<1>1. Len(s) \in Nat /\ Len(s) # 0 /\ Head(s) = s[1] /\ 1 \in 1 .. Len(s)
  OBVIOUS
<1>2. ASSUME NEW i \in 1 .. Len(Tail(s)) PROVE Tail(s)[i] = s[i + 1] /\ i + 1 \in 1 .. Len(s)
  BY <1>1
<1>3. /\ DOMAIN s = 1 .. Len(s) /\ DOMAIN Tail(s) = 1 .. Len(Tail(s))
  BY <1>1
<1>4. QED
  BY <1>1, <1>2, <1>3 DEF Range

(* The second half of DeliveryInv, for one request.                       *)
Served(r) ==
  client[r] = "done" => r \in Range(emitted) /\ received[r] = Tail_token_ids(states[r])

LEMMA DeliveryInitial == Init => DeliveryInv
BY DEF Init, SchedInit, DeliveryInv, Range

LEMMA ServedStays ==
  ASSUME TypeOK, AllKept, [Next]_vars, NEW r, Served(r),
         client'[r] = "done" => client[r] = "done" /\ received'[r] = received[r]
  PROVE  Served(r)'
BY EmittedStays DEF Served

LEMMA DeliveryNext ==
  TypeOK /\ AllKept /\ DeliveryInv /\ [Next]_vars => DeliveryInv'
<1>1. SUFFICES ASSUME TypeOK, AllKept, DeliveryInv, [Next]_vars PROVE DeliveryInv'
  OBVIOUS
<1> DEFINE Good(m) == m.type = "OUTPUT" =>
             /\ m.req_id \in Range(emitted') /\ m.tail = Tail_token_ids(states'[m.req_id])
<1>2. ASSUME NEW c \in Client, NEW m \in Range(output_queue[c]) PROVE Good(m)
  BY <1>1, <1>2, EmittedStays DEF DeliveryInv
<1>3. ASSUME NEW r \in ReqId PROVE Served(r)
  BY <1>1 DEF DeliveryInv, Served
<1>4. /\ output_queue \in [Client -> Seq(OutputMessage)]
      /\ client \in [ReqId -> Status] /\ received \in [ReqId -> Seq(Token)]
  BY <1>1 DEF TypeOK
<1>5. ASSUME NEW c \in Client, NEW m \in Range(output_queue'[c]) PROVE Good(m)
  <2>1. CASE Step
    <3> DEFINE b == running[1]
    <3>1. PICK y \in NewTexts(states[b]) :
            /\ states'[b] = Advance(states[b], y)
            /\ IF Finished(Advance(states[b], y))
               THEN /\ Range(emitted') = Range(emitted) \cup {b}
                    /\ output_queue' = [output_queue EXCEPT ![Client0] =
                         Append(output_queue[Client0],
                                Output(b, Tail_token_ids(Advance(states[b], y))))]
               ELSE UNCHANGED <<emitted, output_queue>>
      BY <1>1, <2>1, StepTaken, Zenon
    <3> DEFINE o == Output(b, Tail_token_ids(Advance(states[b], y)))
    <3>2. CASE ~Finished(Advance(states[b], y))
      BY <1>2, <1>5, <3>1, <3>2
    <3>3. CASE Finished(Advance(states[b], y))
      <4>1. Good(o)
        BY <3>1, <3>3, Zenon DEF Output
      <4>2. b \in ReqId /\ states[b] \in DiffusionRuntimeState
        BY <1>1, <2>1, StepTaken, ZenonT(30)
      <4>3. Advance(states[b], y) \in DiffusionRuntimeState
        BY <4>2, AdvanceType, Zenon
      <4>4. o \in OutputMessage
        BY <4>2, <4>3, TailType, Zenon DEF Output, OutputMessage
      <4>5. output_queue' = [output_queue EXCEPT ![Client0] =
                               Append(output_queue[Client0], o)]
        BY <3>1, <3>3
      <4> HIDE DEF o, b
      <4>6. CASE c = Client0
        <5>1. output_queue'[c] = Append(output_queue[c], o)
          BY <1>4, <4>5, <4>6
        <5>2. Range(output_queue'[c]) = Range(output_queue[c]) \cup {o}
          BY <1>4, <4>4, <5>1, RangeAppend
        <5>3. QED
          BY <1>2, <1>5, <4>1, <5>2
      <4>7. CASE c # Client0
        BY <1>2, <1>4, <1>5, <4>5, <4>7
      <4>8. QED
        BY <4>6, <4>7
    <3>4. QED
      BY <3>2, <3>3
  <2>2. ASSUME NEW d \in Client, ProcessOutput(d) PROVE Good(m)
    <3>1. /\ output_queue[d] # <<>> /\ output_queue[d] \in Seq(OutputMessage)
          /\ output_queue'[c] = IF c = d THEN Tail(output_queue[d]) ELSE output_queue[c]
      BY <1>4, <2>2 DEF ProcessOutput
    <3>2. m \in Range(output_queue[c])
      BY <1>5, <3>1, HeadAndTail
    <3>3. QED
      BY <1>2, <3>2
  <2>3. CASE Die
    <3>1. output_queue'[c] = Append(output_queue[c], ENGINE_CORE_DEAD)
      BY <2>3 DEF Die
    <3>2. ENGINE_CORE_DEAD \in OutputMessage /\ Good(ENGINE_CORE_DEAD)
      BY DEF OutputMessage, ENGINE_CORE_DEAD
    <3>3. Range(output_queue'[c]) = Range(output_queue[c]) \cup {ENGINE_CORE_DEAD}
      BY <1>4, <3>1, <3>2, RangeAppend
    <3>4. QED
      BY <1>2, <1>5, <3>2, <3>3, Zenon
  <2>4. ASSUME ~Step, ~Die, \A d \in Client : ~ProcessOutput(d) PROVE Good(m)
    <3>1. output_queue' = output_queue
      BY <1>1, <2>4, Zenon DEF Next, Main, Submit, Cancel, HandleAdd, HandleAbort, BeginStep,
                        Migrate, MigrateRaises, StepRaises, Idle, vars
    <3>2. QED
      BY <1>2, <1>5, <3>1, Zenon
  <2>5. QED
    BY <2>1, <2>2, <2>3, <2>4, Zenon
<1>6. ASSUME NEW r \in ReqId PROVE Served(r)'
  <2>1. ASSUME NEW q \in ReqId, Submit(q) \/ Cancel(q) PROVE Served(r)'
    <3>1. client'[r] = "done" => client[r] = "done" /\ received'[r] = received[r]
      BY <1>4, <2>1, Zenon DEF Submit, Cancel
    <3>2. QED
      BY <1>1, <1>3, <3>1, ServedStays, Zenon
  <2>2. ASSUME NEW c \in Client, ProcessOutput(c) PROVE Served(r)'
    <3> DEFINE m == Head(output_queue[c])
    <3>1. m \in Range(output_queue[c])
      BY <1>4, <2>2, HeadAndTail DEF ProcessOutput
    <3>2. Good(m)
      BY <1>2, <3>1
    <3>3. CASE client'[r] = "done" => client[r] = "done" /\ received'[r] = received[r]
      BY <1>1, <1>3, <3>3, ServedStays, Zenon
    <3>4. CASE client[r] = "open" /\ m.type = "OUTPUT" /\ m.req_id = r /\ received'[r] = m.tail
      BY <3>2, <3>4, ZenonT(30) DEF Served
    <3>5. \/ client'[r] = "done" => client[r] = "done" /\ received'[r] = received[r]
          \/ client[r] = "open" /\ m.type = "OUTPUT" /\ m.req_id = r /\ received'[r] = m.tail
      BY <1>4, <2>2 DEF ProcessOutput, process_outputs, propagate_error
    <3>6. QED
      BY <3>3, <3>4, <3>5, Zenon
  <2>3. ASSUME \A q \in ReqId : ~Submit(q) /\ ~Cancel(q), \A d \in Client : ~ProcessOutput(d)
        PROVE  Served(r)'
    <3>1. UNCHANGED <<client, received>>
      <4>1. CASE Step
        BY <1>1, <4>1, StepTaken, ZenonT(30)
      <4>2. CASE ~Step
        BY <1>1, <2>3, <4>2 DEF Next, Main, HandleAdd, HandleAbort, BeginStep, Migrate,
                            MigrateRaises, StepRaises, Die, Idle, vars, clientVars
      <4>3. QED
        BY <4>1, <4>2, Zenon
    <3>2. QED
      BY <1>1, <1>3, <3>1, ServedStays
  <2>4. QED
    BY <2>1, <2>2, <2>3
<1>7. QED
  BY <1>5, <1>6 DEF DeliveryInv, Served

(* DeliveredIsComplete: what a caller receives is the generated part of    *)
(* its own text as the scheduler left it, and if the network never samples *)
(* the mask token there is no mask in it.                                  *)
THEOREM Delivered == Spec => []DeliveredIsComplete
<1>1. TypeOK /\ AllKept /\ TextInv /\ DeliveryInv => DeliveredIsComplete
  <2>1. SUFFICES ASSUME TypeOK, AllKept, TextInv, DeliveryInv,
                        NEW r \in ReqId, client[r] = "done"
                 PROVE  /\ received[r] = Tail_token_ids(states[r])
                        /\ MaskId \in Range(received[r]) => MaskId \in Vocab
    BY Zenon DEF DeliveredIsComplete
  <2>2. r \in Range(emitted) /\ received[r] = Tail_token_ids(states[r])
    BY <2>1, Zenon DEF DeliveryInv
  <2>3. r \in DOMAIN states
    BY <2>1, <2>2, AcceptedFacts, Zenon DEF AllKept
  <2>4. states[r] \in DiffusionRuntimeState /\ StateRight(r)
    BY <2>1, <2>3 DEF TypeOK, TextInv
  <2>5. QED
    BY <2>2, <2>4, SettledComplete, Zenon DEF StateRight
<1>2. Spec => []DeliveryInv
  BY TypeCorrect, KeptAlways, DeliveryInitial, DeliveryNext, PTL DEF Spec
<1>3. QED
  BY <1>1, <1>2, TypeCorrect, KeptAlways, TextHolds, PTL

-----------------------------------------------------------------------------
(* What brings the engine down.                                            *)

LEMMA NeverNewAgain ==
  ASSUME TypeOK, AllKept, [Next]_vars, NEW r \in ReqId, client[r] # "new"
  PROVE  client'[r] # "new"
<1>1. client \in [ReqId -> Status]
  BY DEF TypeOK
<1>2. ASSUME NEW q \in ReqId, Submit(q) \/ Cancel(q) PROVE client'[r] # "new"
  BY <1>1, <1>2, Zenon DEF Submit, Cancel
<1>3. ASSUME NEW c \in Client, ProcessOutput(c) PROVE client'[r] # "new"
  BY <1>1, <1>3, Zenon DEF ProcessOutput, process_outputs, propagate_error
<1>4. CASE Step
  BY <1>4, StepTaken, ZenonT(30)
<1>5. ASSUME ~Step, \A q \in ReqId : ~Submit(q) /\ ~Cancel(q), \A d \in Client : ~ProcessOutput(d)
      PROVE  client' = client
  BY <1>5 DEF Next, Main, HandleAdd, HandleAbort, BeginStep, Migrate, MigrateRaises,
              StepRaises, Die, Idle, vars, clientVars
<1>6. QED
  BY <1>2, <1>3, <1>4, <1>5, Zenon

(* A batch of several requests needs several requests that run.            *)
LEMMA BatchSize ==
  ASSUME TypeOK, Len(running) <= 1
  PROVE  IsFiniteSet(Batch) /\ Cardinality(Batch) <= 1
<1>1. Len(running) \in Nat
  BY DEF TypeOK
<1>2. Batch \subseteq {1}
  BY <1>1 DEF Batch
<1>3. IsFiniteSet({1}) /\ Cardinality({1}) = 1
  BY FS_Singleton, Zenon
<1>4. QED
  BY <1>2, <1>3, FS_Subset, Zenon

(* A request that runs alone, with a text that is right, is accepted.      *)
LEMMA AloneAccepted ==
  ASSUME TypeOK, AllKept, TextInv, NEW h \in Batch, IsBatchHead(h), Len(running) <= 1
  PROVE  LET r == running[1]
         IN  /\ r \in ReqId /\ client[r] # "new"
             /\ HeadParamsAccepted(requests[r].params) => RunnerAccepts(h)
<1> DEFINE r == running[1]
           p == states[r].params
<1>1. h = 1 /\ running # <<>>
  BY HeadIsFirst, Zenon
<1>2. /\ r \in ReqId /\ r \in DOMAIN states /\ states[r] \in DiffusionRuntimeState
      /\ p \in Params /\ 1 \in 1 .. Len(running)
  BY <1>1, Zenon DEF Batch, TypeOK, DiffusionRuntimeState
<1>3. client[r] # "new"
  BY <1>2, AcceptedFacts, Zenon DEF AllKept
<1>4. r \notin Range(emitted)
  <2>1. emitted \in Seq(ReqId) /\ running \in Seq(ReqId) /\ waiting \in Seq(ReqId)
    BY DEF TypeOK
  <2>2. r \in Range(running)
    BY <1>2, <2>1 DEF Range
  <2>3. r \in Range(running \o waiting)
    BY <2>1, <2>2, RangeConcat
  <2>4. /\ IsInjective(emitted \o (running \o waiting))
        /\ running \o waiting \in Seq(ReqId)
    BY AcceptedFacts, ZenonT(30) DEF AllKept
  <2>5. QED
    BY <2>1, <2>3, <2>4, RangeConcat, Zenon
<1>5. p = requests[r].params /\ (HeadParamsAccepted(p) => OutputMasks(states[r]) # {})
  BY <1>2, <1>4, Zenon DEF TextInv, StateRight, Underway
<1>6. \A i \in Batch : i = 1
  BY DEF Batch, TypeOK
<1>7. HeadParamsAccepted(p) => BatchParamsAccepted(p)
  BY <1>2, AcceptedBlocks
<1>8. HeadParamsAccepted(p) => RunnerAccepts(h)
  BY <1>1, <1>5, <1>6, <1>7, Zenon DEF RunnerAccepts
<1>9. QED
  BY <1>2, <1>3, <1>5, <1>8, Zenon

(* OnlyBadRequestsKill: the engine process ends only where the forward     *)
(* pass may raise, where requests run together, without a pool, or after a *)
(* submitted request whose own parameters the runner rejects.              *)
THEOREM KilledByBad == Spec => []OnlyBadRequestsKill
<1>1. Init => OnlyBadRequestsKill
  BY Zenon DEF Init, OnlyBadRequestsKill
<1>2. TypeOK /\ AllKept /\ TextInv /\ OnlyBadRequestsKill /\ [Next]_vars
        => OnlyBadRequestsKill'
  <2>1. SUFFICES ASSUME TypeOK, AllKept, TextInv, OnlyBadRequestsKill, [Next]_vars,
                        pc' = "dead"
                 PROVE  \/ ForwardMayFail
                        \/ Len(running') > 1
                        \/ ~pool_ready'
                        \/ \E r \in ReqId :
                             client'[r] # "new" /\ ~HeadParamsAccepted(requests'[r].params)
    BY Zenon DEF OnlyBadRequestsKill
  <2>2. CASE pc = "dead"
    <3>1. UNCHANGED <<requests, pool_ready, running>>
      BY <2>1, <2>2, Zenon DEF Next, Main, Submit, Cancel, ProcessOutput, HandleAdd, HandleAbort,
             BeginStep, Migrate, MigrateRaises, Step, StepRaises, Idle, vars, schedVars
    <3>2. QED
      BY <2>1, <2>2, <3>1, NeverNewAgain, Zenon DEF OnlyBadRequestsKill
  <2>3. CASE MigrateRaises
    BY <2>1, <2>3, Zenon DEF MigrateRaises, Die, can_add_more_requests, TypeOK
  <2>4. CASE StepRaises
    <3>1. PICK h \in Batch : IsBatchHead(h) /\ (ForwardMayRaise \/ ~RunnerAccepts(h))
      BY <2>4, Zenon DEF StepRaises
    <3>2. UNCHANGED <<requests, running, client>>
      BY <2>4 DEF StepRaises, Die, schedVars, clientVars
    <3>3. Len(running) \in Nat
      BY <2>1 DEF TypeOK
    <3>4. CASE Len(running) <= 1
      <4>1. Cardinality(Batch) \in Nat /\ Cardinality(Batch) <= 1
        BY <2>1, <3>4, BatchSize, FS_CardinalityType, Zenon
      <4>2. ForwardMayFail \/ ~RunnerAccepts(h)
        <5> DEFINE n == Cardinality(Batch)
        <5> HIDE DEF n
        <5>1. ~(n > 1)
          BY <4>1 DEF n
        <5>2. QED
          BY <3>1, <5>1, Zenon DEF ForwardMayRaise, n
      <4>3. QED
        BY <2>1, <3>1, <3>2, <3>4, <4>2, AloneAccepted, Zenon
    <3>5. QED
      BY <3>2, <3>3, <3>4
  <2>5. CASE pc # "dead" /\ ~MigrateRaises /\ ~StepRaises
    <3>1. pc' # "dead"
      BY <2>1, <2>5, Zenon DEF Next, Main, Submit, Cancel, ProcessOutput, HandleAdd, HandleAbort,
             BeginStep, Migrate, Step, ExecuteDiffusionOnce, Idle, vars
    <3>2. QED
      BY <2>1, <3>1
  <2>6. QED
    BY <2>2, <2>3, <2>4, <2>5, Zenon
<1>3. QED
  BY <1>1, <1>2, TypeCorrect, KeptAlways, TextHolds, PTL DEF Spec
=============================================================================
