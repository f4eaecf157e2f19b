----------------------------- MODULE Assistant ------------------------------
(***************************************************************************)
(* Conversations with the assistant: ChatService and ConversationStore     *)
(* behind the chat routes, and the loop of model and tools that answers.   *)
(* A history is loaded, the model is asked, which takes its time, and the  *)
(* whole history is saved again; with Redis the workers share it, and a    *)
(* worker that cannot reach Redis falls back to its own memory.            *)
(*                                                                         *)
(* A message is known by the number of its question, an answer by the      *)
(* question it was given to.  Left out: texts, the choice of a model, and  *)
(* what a tool returns.                                                    *)
(***************************************************************************)
EXTENDS Integers, Sequences, SequencesExt

CONSTANTS Talks,         \* conversations
          Callers,       \* requests under way at the same time
          Workers,       \* processes, each with its own memory
          MaxHistory,    \* CHAT_MAX_HISTORY, in turns
          MaxQuestions   \* bound on the questions asked

AssistantAssumption == MaxHistory \in Nat \ {0} /\ MaxQuestions \in Nat

VARIABLES
  redis,   \* the histories in Redis
  memory,  \* the histories in each worker's memory
  asked,   \* how many questions were asked
  call,    \* the request each caller has under way
  told     \* what the last caller was told

vars == <<redis, memory, asked, call, told>>

Nobody == [at |-> "idle"]
NoHistory == [t \in {} |-> <<>>]

Init ==
  /\ redis = NoHistory
  /\ memory = [w \in Workers |-> NoHistory]
  /\ asked = 0
  /\ call = [c \in Callers |-> Nobody]
  /\ told = "nothing"

Put(histories, t, history) == [x \in DOMAIN histories \cup {t} |-> IF x = t THEN history ELSE histories[x]]
Without(histories, t) == [x \in DOMAIN histories \ {t} |-> histories[x]]
Get(histories, t) == IF t \in DOMAIN histories THEN histories[t] ELSE <<>>

-----------------------------------------------------------------------------
(* ConversationStore *)

(* get_history: Redis, or this worker's memory when Redis fails. *)
Histories(w, t) == {Get(redis, t), Get(memory[w], t)}

(* save_history: the same for a whole history, kept for a day.  When the   *)
(* answer of Redis is lost, the history may be there as well.              *)
SaveHistory(w, t, history) ==
  \/ redis' = Put(redis, t, history) /\ UNCHANGED memory
  \/ /\ redis' \in {redis, Put(redis, t, history)}
     /\ memory' = [memory EXCEPT ![w] = Put(@, t, history)]

(* delete_conversation; no route leads here. *)
DeleteConversation(w, t) ==
  /\ redis' \in {redis, Without(redis, t)}
  /\ memory' = [memory EXCEPT ![w] = Without(@, t)]
  /\ UNCHANGED <<asked, call, told>>

Expire(t) ==
  /\ t \in DOMAIN redis
  /\ redis' = Without(redis, t)
  /\ UNCHANGED <<memory, asked, call, told>>

Restart(w) ==
  /\ memory' = [memory EXCEPT ![w] = NoHistory]
  /\ call' = [c \in Callers |-> IF call[c].at # "idle" /\ call[c].worker = w THEN Nobody ELSE call[c]]
  /\ UNCHANGED <<redis, asked, told>>

-----------------------------------------------------------------------------
(* ChatService.send_message *)

Question(n) == [role |-> "user", turn |-> n]
Answer(n) == [role |-> "assistant", turn |-> n]

(* Mutant: the history is never cut. *)
TrimmedNever(history) == history

(* The last messages up to the limit; the answer comes on top of them. *)
Trimmed(history) ==
  IF Len(history) > 2 * MaxHistory
  THEN SubSeq(history, Len(history) - 2 * MaxHistory + 1, Len(history)) ELSE history

Load(c, w, t) ==
  /\ call[c].at = "idle"
  /\ asked < MaxQuestions
  /\ asked' = asked + 1
  /\ \E history \in Histories(w, t) :
       call' = [call EXCEPT ![c] = [at |-> "model", worker |-> w, talk |-> t,
                                    history |-> Trimmed(Append(history, Question(asked + 1)))]]
  /\ UNCHANGED <<redis, memory, told>>

(* The model calls tools, which answer, or fail with a message of their own. *)
CallTools(c) ==
  /\ call[c].at = "model"
  /\ call' = [call EXCEPT ![c].at = "tools"]
  /\ UNCHANGED <<redis, memory, asked, told>>

ToolsAnswer(c) ==
  /\ call[c].at = "tools"
  /\ call' = [call EXCEPT ![c].at = "model"]
  /\ UNCHANGED <<redis, memory, asked, told>>

(* The last answer in the messages: the model's, or, when that is empty,   *)
(* the one before it, or an apology.                                       *)
Replies(history) ==
  LET older == {i \in DOMAIN history : /\ history[i].role = "assistant"
                                       /\ \A j \in i + 1 .. Len(history) : history[j].role # "assistant"}
  IN {Answer(Last(history).turn)} \cup (IF older = {} THEN {Answer(0)} ELSE {history[i] : i \in older})

(* Mutant: the turn is added to the history as it is by now. *)
SavedOnTop(c, reply) ==
  Get(redis, call[c].talk) \o <<Last(call[c].history), reply>>

(* The whole history that this request loaded, and its answer. *)
Saved(c, reply) == Append(call[c].history, reply)

Finish(c, what) == call' = [call EXCEPT ![c] = Nobody] /\ told' = what /\ UNCHANGED asked

Reply(c) ==
  /\ call[c].at = "model"
  /\ \E reply \in Replies(call[c].history) :
       SaveHistory(call[c].worker, call[c].talk, Saved(c, reply)) /\ Finish(c, "reply")

(* The model or its loop fails: a tip, and nothing is saved. *)
Fallback(c) ==
  /\ call[c].at # "idle"
  /\ UNCHANGED <<redis, memory>> /\ Finish(c, "tip")

(* No model is configured. *)
Offline == told' = "tip" /\ UNCHANGED <<redis, memory, asked, call>>

-----------------------------------------------------------------------------
(* The other routes *)

CreateConversation(w, t) ==
  /\ t \notin DOMAIN redis \cup DOMAIN memory[w]
  /\ SaveHistory(w, t, <<>>)
  /\ told' = "created" /\ UNCHANGED <<asked, call>>

ListConversations(w) ==
  /\ \E known \in {DOMAIN redis, DOMAIN memory[w]} : told' = IF known = {} THEN "none" ELSE "list"
  /\ UNCHANGED <<redis, memory, asked, call>>

GetHistory(w, t) ==
  /\ \E history \in Histories(w, t) : told' = IF history = <<>> THEN "none" ELSE "history"
  /\ UNCHANGED <<redis, memory, asked, call>>

Next ==
  \/ \E c \in Callers : CallTools(c) \/ ToolsAnswer(c) \/ Reply(c) \/ Fallback(c)
  \/ \E c \in Callers, w \in Workers, t \in Talks : Load(c, w, t)
  \/ \E w \in Workers, t \in Talks :
       CreateConversation(w, t) \/ GetHistory(w, t) \/ DeleteConversation(w, t)
  \/ \E w \in Workers : ListConversations(w) \/ Restart(w)
  \/ \E t \in Talks : Expire(t)
  \/ Offline

Spec == Init /\ [][Next]_vars

-----------------------------------------------------------------------------
Messages == [role : {"user", "assistant"}, turn : 0 .. MaxQuestions]
IsHistory(h) == h \in Seq(Messages) /\ Len(h) <= 2 * MaxHistory + 1

(* The histories and the requests have their types, and no history grows   *)
(* past its limit and one answer.                                          *)
TypeOK ==
  /\ \A t \in DOMAIN redis : t \in Talks /\ IsHistory(redis[t])
  /\ \A w \in Workers : \A t \in DOMAIN memory[w] : t \in Talks /\ IsHistory(memory[w][t])
  /\ asked \in 0 .. MaxQuestions
  /\ \A c \in Callers : call[c].at \in {"idle", "model", "tools"} /\ (call[c].at # "idle" => IsHistory(call[c].history))
  /\ told \in {"nothing", "reply", "tip", "created", "none", "list", "history"}

InOrder(history) ==
  \A i \in DOMAIN history : history[i].role = "user" =>
    /\ i < Len(history) /\ history[i + 1].role = "assistant" /\ history[i + 1].turn <= history[i].turn
    /\ \A j \in 1 .. i - 1 : history[j].turn < history[i].turn

(* Whatever overlaps, fails or falls back to a memory, and whatever is     *)
(* trimmed: every history that is kept, in Redis or in a memory, has its   *)
(* questions in the order they were asked, each with an answer behind it,  *)
(* which is never one to a later question.  (Turns may be missing.)        *)
TurnsInOrder ==
  /\ \A t \in DOMAIN redis : InOrder(redis[t])
  /\ \A w \in Workers : \A t \in DOMAIN memory[w] : InOrder(memory[w][t])
=============================================================================
