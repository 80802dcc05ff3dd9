------------------------- MODULE ConversationProofs -------------------------
(***************************************************************************)
(* For any calls, messages, approvals, window, limits and faults: no tool  *)
(* of a reply that asks for approval is started before one of its calls    *)
(* was approved (IInv); every round answers each of its calls once, and    *)
(* the LLM is shown no answer ahead of its call (AInv).                    *)
(***************************************************************************)
EXTENDS Conversation, FiniteSetTheorems, SequenceTheorems, TLAPS

Job_PC == {"idle", "queued", "asking", "replied", "handle", "tools", "follow",
           "followed", "over", "read", "decided"}
Message == [role : {"user", "assistant", "tool"}, calls : SUBSET Call]

Typed ==
    /\ history \in Seq(Message)
    /\ at \in [Job -> Job_PC]
    /\ calls \in [Job -> SUBSET Call] /\ todo \in [Job -> SUBSET Call]
    /\ decides \in [Approver -> [of : SUBSET Call, yes : BOOLEAN]]
    /\ ran \subseteq Call /\ granted \subseteq Call

\* The replies of the chat, each as the set of its calls.
Replies == {history[i].calls : i \in {k \in DOMAIN history : history[k].role = "assistant"}}

\* A call belongs to one reply, announced or in the hands of a job.
Alike ==
    LET sets == Replies \cup {calls[j] : j \in Job}
    IN \A S, T \in sets : S = T \/ S \cap T = {}

\* The tools that run are those of an announced reply that was cleared.
Clear(S) == S \cap NeedsApproval = {} \/ S \cap granted # {}

Cleared ==
    \A j \in Job :
        /\ at[j] \in {"handle", "tools"} => Clear(calls[j])
        /\ at[j] = "tools" => calls[j] = {} \/ calls[j] \in Replies
        /\ at[j] = "tools" => todo[j] \subseteq calls[j]

\* An approval counts once it is committed.
Decided ==
    \A r \in Approver :
        /\ decides[r].of = {} \/ \E c \in Call : decides[r].of = {c}
        /\ at[r] \notin {"idle", "read"} /\ decides[r].yes => decides[r].of \subseteq granted

RanAnnounced == \A c \in ran : \E S \in Replies : c \in S
RanCleared == \A S \in Replies : S \cap ran # {} => Clear(S)

IInv == Typed /\ Alike /\ Cleared /\ Decided /\ RanAnnounced /\ RanCleared

\* The messages that are saved.
LEMMA Messages ==
  /\ User \in Message
  /\ \A S \in SUBSET Call : Assistant(S) \in Message
  /\ \A c \in Call : Answer(c) \in Message
  BY DEF Message, User, Assistant, Answer

\* Only a saved reply adds to the replies.
LEMMA SaveReplies ==
  ASSUME history \in Seq(Message), NEW m \in Message, Save(m)
  PROVE  /\ history' \in Seq(Message)
         /\ Replies' = Replies \cup (IF m.role = "assistant" THEN {m.calls} ELSE {})
  <1>1. history' = Append(history, m)
    BY DEF Save
  <1>2. /\ history' \in Seq(Message)
        /\ Len(history') = Len(history) + 1
        /\ \A i \in 1..Len(history) : history'[i] = history[i]
        /\ history'[Len(history) + 1] = m
    BY <1>1
  <1>3. /\ DOMAIN history = 1..Len(history)
        /\ DOMAIN history' = 1..Len(history')
        /\ Len(history) \in Nat
    BY <1>2
  <1>4. DOMAIN history' = DOMAIN history \cup {Len(history) + 1}
    BY <1>2, <1>3
  <1>5. \A i \in DOMAIN history' : IF i \in DOMAIN history THEN history'[i] = history[i]
                                                          ELSE history'[i] = m
    BY <1>2, <1>3, <1>4
  <1>6. Len(history) + 1 \in DOMAIN history' /\ Len(history) + 1 \notin DOMAIN history
    <2>1. Len(history) + 1 \notin 1..Len(history)
      BY <1>3
    <2>2. QED
      BY <2>1, <1>3, <1>4
  <1>7. \A S : S \in Replies' <=> S \in Replies \/ (m.role = "assistant" /\ S = m.calls)
    BY <1>4, <1>5, <1>6 DEF Replies
  <1>8. QED
    BY <1>2, <1>7

\* Answers add nothing to them, however many are saved.
LEMMA AnswerReplies ==
  ASSUME history \in Seq(Message), NEW s \in Seq(Message),
         \A i \in DOMAIN s : s[i].role = "tool", history' = history \o s
  PROVE  history' \in Seq(Message) /\ Replies' = Replies
  <1>1. /\ history' \in Seq(Message)
        /\ Len(history') = Len(history) + Len(s)
        /\ \A i \in 1..Len(history') :
              history'[i] = IF i <= Len(history) THEN history[i] ELSE s[i - Len(history)]
    OBVIOUS
  <1>2. /\ DOMAIN history = 1..Len(history) /\ DOMAIN s = 1..Len(s)
        /\ DOMAIN history' = 1..Len(history')
        /\ Len(history) \in Nat /\ Len(s) \in Nat
    BY <1>1
  <1>3. \A i \in DOMAIN history : i \in DOMAIN history' /\ history'[i] = history[i]
    BY <1>1, <1>2
  <1>4. \A i \in DOMAIN history' : i \notin DOMAIN history => history'[i].role = "tool"
    <2> SUFFICES ASSUME NEW i \in DOMAIN history', i \notin DOMAIN history
                 PROVE  history'[i].role = "tool"
      OBVIOUS
    <2>1. i - Len(history) \in DOMAIN s /\ history'[i] = s[i - Len(history)]
      BY <1>1, <1>2
    <2>2. QED
      BY <2>1
  <1>5. \A S : S \in Replies' <=> S \in Replies
    BY <1>3, <1>4 DEF Replies
  <1>6. QED
    BY <1>1, <1>5

\* The calls announced together with a call are those of its reply.
LEMMA TogetherIs ==
  ASSUME Alike, NEW c, NEW S \in Replies, c \in S
  PROVE  Together(c) = S
  <1>1. \A T \in Replies : c \in T => T = S
    BY DEF Alike
  <1>2. Together(c) = UNION {T \in Replies : c \in T}
    BY DEF Together, Announces, Replies
  <1>3. QED
    BY <1>1, <1>2

LEMMA TogetherNone ==
  ASSUME NEW c, \A S \in Replies : c \notin S
  PROVE  Together(c) = {}
  <1>1. Together(c) = UNION {T \in Replies : c \in T}
    BY DEF Together, Announces, Replies
  <1>2. QED
    BY <1>1

\* Saving an empty reply, or none, and granting more, disturbs no reply.
LEMMA QuietReplies ==
  ASSUME IInv, Replies \subseteq Replies', Replies' \subseteq Replies \cup {{}},
         calls' = calls, ran' = ran, granted \subseteq granted'
  PROVE  Alike' /\ RanAnnounced' /\ RanCleared'
  <1>1. Alike'
    BY DEF IInv, Alike
  <1>2. RanAnnounced'
    BY DEF IInv, RanAnnounced
  <1>3. RanCleared'
    BY DEF IInv, RanCleared, Clear
  <1>4. QED
    BY <1>1, <1>2, <1>3

\* A job that goes anywhere but to its tools.
LEMMA QuietJob ==
  ASSUME IInv, NEW j \in Job, NEW to \in Job_PC \ {"handle", "tools"},
         at' = [at EXCEPT ![j] = to],
         j \in Approver /\ at[j] \in {"idle", "read"} => to \in {"idle", "read"},
         calls' = calls, todo' = todo, decides' = decides,
         granted \subseteq granted', Replies \subseteq Replies'
  PROVE  Cleared' /\ Decided'
  <1>1. \A k \in Job : at'[k] = IF k = j THEN to ELSE at[k]
    BY DEF IInv, Typed
  <1>2. Cleared'
    BY <1>1 DEF IInv, Cleared, Clear
  <1>3. Approver \subseteq Job
    BY DEF Job
  <1>4. Decided'
    BY <1>1, <1>3 DEF IInv, Decided
  <1>5. QED
    BY <1>2, <1>4

\* A job that goes nowhere.
LEMMA QuietStay ==
  ASSUME IInv, at' = at, calls' = calls, decides' = decides,
         todo' \in [Job -> SUBSET Call], \A k \in Job : todo'[k] \subseteq todo[k],
         granted \subseteq granted', Replies \subseteq Replies'
  PROVE  Cleared' /\ Decided'
  <1>1. Cleared'
    BY DEF IInv, Cleared, Clear
  <1>2. Decided'
    BY DEF IInv, Decided
  <1>3. QED
    BY <1>1, <1>2

\* What the steps that leave the tools alone do: a message of the user, an
\* empty reply or none is saved, and a job goes on.
LEMMA QuietStep ==
  ASSUME IInv, NEW j \in Job, NEW to \in Job_PC \ {"handle", "tools"},
         at' = [at EXCEPT ![j] = to],
         j \in Approver /\ at[j] \in {"idle", "read"} => to \in {"idle", "read"},
         \/ Save(User) \/ Save(Assistant({})) \/ UNCHANGED history,
         calls' = calls, todo' = todo, decides' = decides, ran' = ran, granted' = granted
  PROVE  IInv'
  <1>1. /\ history' \in Seq(Message)
        /\ Replies \subseteq Replies' /\ Replies' \subseteq Replies \cup {{}}
    <2>1. CASE UNCHANGED history
      BY <2>1 DEF IInv, Typed, Replies
    <2>2. CASE Save(User)
      BY <2>2, SaveReplies, Messages DEF IInv, Typed, User
    <2>3. CASE Save(Assistant({}))
      <3>1. Assistant({}) \in Message /\ Assistant({}).calls = {}
        BY Messages DEF Assistant
      <3>2. QED
        BY <2>3, <3>1, SaveReplies DEF IInv, Typed
    <2>4. QED
      BY <2>1, <2>2, <2>3
  <1>2. Typed'
    BY <1>1 DEF IInv, Typed
  <1>3. Alike' /\ RanAnnounced' /\ RanCleared'
    BY <1>1, QuietReplies
  <1>4. Cleared' /\ Decided'
    BY <1>1, QuietJob
  <1>5. QED
    BY <1>2, <1>3, <1>4 DEF IInv

\* Tools that are answered, in the order s.
LEMMA AnswerStep ==
  ASSUME IInv, NEW j \in Job, at[j] = "tools", UNCHANGED <<at, calls, decides, granted>>,
         NEW left \in SUBSET todo[j], todo' = [todo EXCEPT ![j] = left],
         NEW more \in SUBSET todo[j], ran' = ran \cup more,
         NEW s \in Seq(Message), \A i \in DOMAIN s : s[i].role = "tool",
         history' = history \o s
  PROVE  IInv'
  <1>1. history' \in Seq(Message) /\ Replies' = Replies
    BY AnswerReplies DEF IInv, Typed
  <1>2. todo[j] \subseteq calls[j] /\ calls[j] \subseteq Call
    BY DEF IInv, Typed, Cleared
  <1>3. todo' \in [Job -> SUBSET Call] /\ \A k \in Job : todo'[k] \subseteq todo[k]
    BY <1>2 DEF IInv, Typed
  <1>4. Typed'
    BY <1>1, <1>2, <1>3 DEF IInv, Typed
  <1>5. Cleared' /\ Decided'
    BY <1>1, <1>3, QuietStay
  <1>6. Alike'
    <2>1. {calls'[k] : k \in Job} = {calls[k] : k \in Job}
      OBVIOUS
    <2>2. QED
      BY <1>1, <2>1 DEF IInv, Alike
  <1>7. more = {} \/ (calls[j] \in Replies /\ more \subseteq calls[j] /\ Clear(calls[j]))
    BY <1>2 DEF IInv, Cleared
  <1>8. RanAnnounced'
    BY <1>1, <1>7 DEF IInv, RanAnnounced
  <1>9. RanCleared'
    <2> SUFFICES ASSUME NEW S \in Replies, S \cap (ran \cup more) # {}
                 PROVE  Clear(S)
      BY <1>1 DEF RanCleared, Clear
    <2>1. CASE S \cap ran # {}
      BY <2>1 DEF IInv, RanCleared
    <2>2. CASE S \cap more # {}
      BY <2>2, <1>7 DEF IInv, Alike
    <2>3. QED
      BY <2>1, <2>2
  <1>10. QED
    BY <1>4, <1>5, <1>6, <1>8, <1>9 DEF IInv

\* A new reply: its calls are fresh, and it was asked for or needs nothing.
LEMMA FreshStep ==
  ASSUME IInv, NEW j \in Job, NEW S \in SUBSET Call, Fresh(S),
         NEW to \in Job_PC \ {"tools"}, at' = [at EXCEPT ![j] = to],
         to = "handle" => S \cap NeedsApproval = {},
         at[j] \notin {"idle", "read"},
         Save(Assistant(S)) \/ UNCHANGED history,
         calls' = [calls EXCEPT ![j] = S],
         UNCHANGED <<todo, decides, ran, granted>>
  PROVE  IInv'
  <1>1. history' \in Seq(Message) /\ Replies \subseteq Replies' /\ Replies' \subseteq Replies \cup {S}
    <2>1. CASE UNCHANGED history
      BY <2>1 DEF IInv, Typed, Replies
    <2>2. CASE Save(Assistant(S))
      <3>1. Assistant(S) \in Message /\ Assistant(S).calls = S
        BY Messages DEF Assistant
      <3>2. QED
        BY <2>2, <3>1, SaveReplies DEF IInv, Typed
    <2>3. QED
      BY <2>1, <2>2
  <1>2. /\ at' \in [Job -> Job_PC] /\ calls' \in [Job -> SUBSET Call]
        /\ \A k \in Job : at'[k] = IF k = j THEN to ELSE at[k]
        /\ \A k \in Job : calls'[k] = IF k = j THEN S ELSE calls[k]
    BY DEF IInv, Typed
  <1>3. Typed'
    BY <1>1, <1>2 DEF IInv, Typed
  <1>4. \A T \in Replies \cup {calls[k] : k \in Job} : T \cap S = {}
    BY DEF Fresh, Replies
  <1>5. Alike'
    BY <1>1, <1>2, <1>4 DEF IInv, Alike
  <1>6. Cleared'
    BY <1>1, <1>2 DEF IInv, Cleared, Clear
  <1>7. Decided'
    <2>1. Approver \subseteq Job
      BY DEF Job
    <2>2. QED
      BY <1>2, <2>1 DEF IInv, Decided
  <1>8. RanAnnounced'
    BY <1>1 DEF IInv, RanAnnounced
  <1>9. RanCleared'
    <2>1. S \cap ran = {}
      BY <1>4 DEF IInv, RanAnnounced
    <2>2. QED
      BY <1>1, <2>1 DEF IInv, RanCleared, Clear
  <1>10. QED
    BY <1>3, <1>5, <1>6, <1>7, <1>8, <1>9 DEF IInv

\* A job starts its tools only if the reply needs no approval.
LEMMA CheckStep ==
  ASSUME IInv, NEW j \in Job, NEW from \in {"replied", "followed"}, CheckApproval(j, from),
         UNCHANGED <<history, calls, todo, decides, ran, granted>>
  PROVE  IInv'
  <1> DEFINE to == IF calls[j] \cap NeedsApproval = {} THEN "handle" ELSE "over"
  <1>1. /\ at[j] = from /\ at' = [at EXCEPT ![j] = to]
        /\ at' \in [Job -> Job_PC] /\ \A k \in Job : at'[k] = IF k = j THEN to ELSE at[k]
    BY DEF CheckApproval, Goes, IInv, Typed, Job_PC
  <1>2. Typed'
    BY <1>1 DEF IInv, Typed
  <1>3. Replies' = Replies
    BY DEF Replies
  <1>4. Alike' /\ RanAnnounced' /\ RanCleared'
    BY <1>3, QuietReplies
  <1>5. Cleared'
    BY <1>1, <1>3 DEF IInv, Cleared, Clear
  <1>6. Decided'
    BY <1>1 DEF IInv, Decided, Job
  <1>7. QED
    BY <1>2, <1>4, <1>5, <1>6 DEF IInv

\* The tools that start are those of a reply that is announced by then.
LEMMA StartStep ==
  ASSUME IInv, NEW j \in Job, StartTools(j)
  PROVE  IInv'
  <1> DEFINE S == calls[j]
  <1>1. /\ S \subseteq Call /\ Clear(S)
        /\ at[j] = "handle" /\ at' = [at EXCEPT ![j] = "tools"]
        /\ \A k \in Job : at'[k] = IF k = j THEN "tools" ELSE at[k]
        /\ at' \in [Job -> Job_PC]
    BY DEF IInv, Typed, Cleared, StartTools, Goes, Job_PC
  <1>2. \/ history' \in Seq(Message) /\ Replies' = Replies \cup {S}
        \/ Replies' = Replies /\ S \in Replies /\ history' = history
    <2>1. CASE Announced(S)
      <3>1. PICK i \in DOMAIN history : history[i].role = "assistant" /\ history[i].calls \cap S # {}
        BY <2>1 DEF Announced
      <3>2. history[i].calls \in Replies
        BY <3>1 DEF Replies
      <3>3. S \in Replies
        BY <3>1, <3>2 DEF IInv, Alike
      <3>4. history' = history
        BY <2>1 DEF StartTools
      <3>5. Replies' = Replies
        BY <3>4 DEF Replies
      <3>6. QED
        BY <3>3, <3>4, <3>5
    <2>2. CASE ~Announced(S)
      <3>1. Assistant(S) \in Message /\ Assistant(S).calls = S /\ Assistant(S).role = "assistant"
        BY <1>1, Messages DEF Assistant
      <3>2. Save(Assistant(S))
        BY <2>2 DEF StartTools
      <3>3. QED
        BY <3>1, <3>2, SaveReplies DEF IInv, Typed
    <2>3. QED
      BY <2>1, <2>2
  <1>3. history' \in Seq(Message) /\ Replies' = Replies \cup {S}
    BY <1>2 DEF IInv, Typed
  <1>4. /\ ran' = ran \cup (S \ Sequential)
        /\ todo' \in [Job -> SUBSET Call] /\ \A k \in Job : todo'[k] = IF k = j THEN S ELSE todo[k]
        /\ calls' = calls /\ decides' = decides /\ granted' = granted
    BY <1>1 DEF StartTools, IInv, Typed
  <1> HIDE DEF S
  <1>5. Typed'
    BY <1>1, <1>3, <1>4 DEF IInv, Typed
  <1>6. S \in {calls[k] : k \in Job} /\ {calls'[k] : k \in Job} = {calls[k] : k \in Job}
    BY <1>4 DEF S
  <1>7. Alike'
    BY <1>3, <1>6 DEF IInv, Alike
  <1>8. Cleared'
    <2>1. \A k \in Job : k = j => Clear(calls[k]) /\ calls[k] \in Replies' /\ todo'[k] = calls[k]
      BY <1>1, <1>3, <1>4 DEF S
    <2>2. QED
      BY <1>1, <1>3, <1>4, <2>1 DEF IInv, Cleared, Clear
  <1>9. Decided'
    BY <1>1, <1>4 DEF IInv, Decided, Job
  <1>10. RanAnnounced'
    BY <1>3, <1>4 DEF IInv, RanAnnounced
  <1>11. RanCleared'
    <2> SUFFICES ASSUME NEW T \in Replies \cup {S}, T \cap (ran \cup (S \ Sequential)) # {}
                 PROVE  Clear(T)
      BY <1>3, <1>4 DEF RanCleared, Clear
    <2>1. CASE T = S
      BY <2>1, <1>1
    <2>2. CASE T # S
      <3>1. T \in Replies /\ T \cap S = {}
        BY <2>2, <1>6 DEF IInv, Alike
      <3>2. QED
        BY <3>1 DEF IInv, RanCleared
    <2>3. QED
      BY <2>1, <2>2
  <1>12. QED
    BY <1>5, <1>7, <1>8, <1>9, <1>10, <1>11 DEF IInv

\* The steps of a tool round.
LEMMA RoundStep ==
  ASSUME IInv, NEW j \in Job, ToolRound(j)
  PROVE  IInv'
  <1>1. CASE StartTools(j)
    BY <1>1, StartStep
  <1>2. CASE ToolsDone(j)
    <2>1. /\ at[j] = "tools" /\ at' = [at EXCEPT ![j] = "follow"]
          /\ UNCHANGED <<history, calls, todo, decides, ran, granted>>
      BY <1>2 DEF ToolsDone, Goes, round, record
    <2>2. QED
      BY <2>1, QuietStep DEF Job_PC
  <1>3. CASE ToolsTimeOut(j)
    <2> DEFINE U == todo[j] \ Sequential
    <2>1. /\ at[j] = "tools" /\ todo' = [todo EXCEPT ![j] = todo[j] \cap Sequential]
          /\ UNCHANGED <<at, calls, decides, granted>> /\ ran' = ran
      BY <1>3 DEF ToolsTimeOut, record
    <2>2. PICK s \in Orders(U) : history' = history \o [i \in DOMAIN s |-> Answer(s[i])]
      BY <1>3 DEF ToolsTimeOut
    <2>3. U \subseteq Call /\ IsFiniteSet(U)
      BY ConversationAssumption, FS_Subset DEF IInv, Typed
    <2>4. Cardinality(U) \in Nat
      BY <2>3, FS_CardinalityType
    <2>5. s \in [1..Cardinality(U) -> U]
      BY <2>2 DEF Orders
    <2>6. [i \in DOMAIN s |-> Answer(s[i])] \in Seq(Message)
      <3>1. \A i \in 1..Cardinality(U) : Answer(s[i]) \in Message
        BY <2>3, <2>5, Messages
      <3>2. [i \in 1..Cardinality(U) |-> Answer(s[i])] \in [1..Cardinality(U) -> Message]
        BY <3>1
      <3>3. DOMAIN s = 1..Cardinality(U)
        BY <2>5
      <3>4. [i \in DOMAIN s |-> Answer(s[i])] = [i \in 1..Cardinality(U) |-> Answer(s[i])]
        BY <3>3
      <3>5. [i \in DOMAIN s |-> Answer(s[i])] \in [1..Cardinality(U) -> Message]
        BY <3>2, <3>4
      <3>6. [1..Cardinality(U) -> Message] \subseteq Seq(Message)
        BY <2>4, SeqDef
      <3>7. QED
        BY <3>5, <3>6
    <2>7. \A i \in DOMAIN s : Answer(s[i]).role = "tool"
      BY DEF Answer
    <2>8. ran' = ran \cup {}
      BY <2>1
    <2>9. \A i \in DOMAIN [k \in DOMAIN s |-> Answer(s[k])] :
              [k \in DOMAIN s |-> Answer(s[k])][i].role = "tool"
      BY <2>7
    <2>10. QED
      BY <2>1, <2>2, <2>6, <2>8, <2>9, AnswerStep
  <1>4. ASSUME NEW c \in Call, ToolEnds(j, c) \/ RunSequential(j, c) PROVE IInv'
    <2>1. /\ at[j] = "tools" /\ todo' = [todo EXCEPT ![j] = todo[j] \ {c}] /\ Save(Answer(c))
          /\ UNCHANGED <<at, calls, decides, granted>>
          /\ c \in todo[j]
      BY <1>4 DEF ToolEnds, RunSequential, record
    <2>2. ran' = ran \cup {} \/ ran' = ran \cup {c}
      BY <1>4 DEF ToolEnds, RunSequential, record
    <2>3. /\ <<Answer(c)>> \in Seq(Message)
          /\ \A i \in DOMAIN <<Answer(c)>> : <<Answer(c)>>[i].role = "tool"
      BY Messages DEF Answer
    <2>4. history' = history \o <<Answer(c)>>
      <3>1. history \in Seq(Message) /\ Answer(c) \in Message
        BY Messages DEF IInv, Typed
      <3>2. QED
        BY <2>1, <3>1 DEF Save
    <2>5. QED
      BY <2>1, <2>2, <2>3, <2>4, AnswerStep
  <1>5. QED
    BY <1>1, <1>2, <1>3, <1>4 DEF ToolRound

\* The steps of a first turn.
LEMMA FirstStep ==
  ASSUME IInv, NEW j \in Job, FirstTurn(j)
  PROVE  IInv'
  <1>1. CASE Send(j) \/ SaveUser(j) \/ ReplyText(j)
    <2>1. /\ \/ at' = [at EXCEPT ![j] = "queued"] \/ at' = [at EXCEPT ![j] = "asking"]
             \/ at' = [at EXCEPT ![j] = "over"]
          /\ j \in Approver => at[j] \notin {"idle", "read"}
          /\ \/ Save(User) \/ Save(Assistant({})) \/ UNCHANGED history
          /\ UNCHANGED <<calls, todo, decides, ran, granted>>
      BY <1>1, ConversationAssumption DEF Send, SaveUser, ReplyText, Goes, round, record
    <2>2. QED
      BY <2>1, QuietStep DEF Job_PC
  <1>2. CASE CheckReply(j)
    <2>1. CheckApproval(j, "replied") /\ UNCHANGED <<history, calls, todo, decides, ran, granted>>
      BY <1>2 DEF CheckReply, round, record
    <2>2. QED
      BY <2>1, CheckStep
  <1>3. ASSUME NEW S \in SUBSET Call, ReplyCalls(j, S) PROVE IInv'
    <2>1. /\ at[j] = "asking" /\ Fresh(S) /\ calls' = [calls EXCEPT ![j] = S]
          /\ UNCHANGED <<todo, decides, ran, granted>>
      BY <1>3 DEF ReplyCalls, record
    <2>2. \/ at' = [at EXCEPT ![j] = "replied"] /\ Save(Assistant(S))
          \/ /\ at' = [at EXCEPT ![j] = "handle"] /\ S \cap NeedsApproval = {} /\ UNCHANGED history
          \/ at' = [at EXCEPT ![j] = "over"] /\ UNCHANGED history
      BY <1>3 DEF ReplyCalls, Goes
    <2>3. CASE at' = [at EXCEPT ![j] = "replied"] /\ Save(Assistant(S))
      BY <2>1, <2>3, FreshStep DEF Job_PC
    <2>4. CASE /\ at' = [at EXCEPT ![j] = "handle"] /\ S \cap NeedsApproval = {} /\ UNCHANGED history
      BY <2>1, <2>4, FreshStep DEF Job_PC
    <2>5. CASE at' = [at EXCEPT ![j] = "over"] /\ UNCHANGED history
      BY <2>1, <2>5, FreshStep DEF Job_PC
    <2>6. QED
      BY <2>2, <2>3, <2>4, <2>5
  <1>4. QED
    BY <1>1, <1>2, <1>3 DEF FirstTurn

\* The steps of a follow-up turn, and failures.
LEMMA FollowStep ==
  ASSUME IInv, NEW j \in Job, FollowUp(j) \/ Fail(j) \/ Interrupt(j)
  PROVE  IInv'
  <1>1. CASE FollowText(j) \/ IterationLimit(j) \/ Fail(j) \/ Interrupt(j)
    <2>1. /\ at' = [at EXCEPT ![j] = "over"]
          /\ at[j] \notin {"idle", "read"}
          /\ Save(Assistant({})) \/ UNCHANGED history
          /\ UNCHANGED <<calls, todo, decides, ran, granted>>
      <3>1. CASE FollowText(j) \/ IterationLimit(j)
        BY <3>1 DEF FollowText, IterationLimit, Goes, round, record
      <3>2. CASE Fail(j)
        BY <3>2 DEF Fail, Running, round, record
      <3>3. CASE Interrupt(j)
        BY <3>3 DEF Interrupt, Running, round, record
      <3>4. QED
        BY <1>1, <3>1, <3>2, <3>3
    <2>2. QED
      BY <2>1, QuietStep DEF Job_PC
  <1>2. CASE NextRound(j)
    <2>1. CheckApproval(j, "followed") /\ UNCHANGED <<history, calls, todo, decides, ran, granted>>
      BY <1>2 DEF NextRound, record
    <2>2. QED
      BY <2>1, CheckStep
  <1>3. ASSUME NEW S \in SUBSET Call, FollowCalls(j, S) PROVE IInv'
    <2>1. /\ at[j] = "follow" /\ at' = [at EXCEPT ![j] = "followed"]
          /\ Fresh(S) /\ Save(Assistant(S)) /\ calls' = [calls EXCEPT ![j] = S]
          /\ UNCHANGED <<todo, decides, ran, granted>>
      BY <1>3 DEF FollowCalls, Goes, record
    <2>2. QED
      BY <2>1, FreshStep DEF Job_PC
  <1>4. QED
    BY <1>1, <1>2, <1>3 DEF FollowUp

\* A job resumed by an approval runs an announced reply with a granted call.
LEMMA ResumeStep ==
  ASSUME IInv, NEW r \in Job, Resume(r)
  PROVE  IInv'
  <1> DEFINE d == decides[r]
             S == UNION {Together(c) : c \in d.of}
             to == IF d.yes THEN "handle" ELSE "over"
  <1>1. /\ r \in Approver /\ at[r] = "queued" /\ at' = [at EXCEPT ![r] = to]
        /\ calls' = [calls EXCEPT ![r] = S]
        /\ UNCHANGED <<history, todo, decides, ran, granted>>
    BY DEF Resume, Goes, record
  <1>2. d.of \subseteq Call /\ (d.yes => d.of \subseteq granted)
    BY <1>1 DEF IInv, Typed, Decided
  <1>3. S = {} \/ (S \in Replies /\ (d.yes => S \cap granted # {}))
    <2>1. CASE d.of = {}
      BY <2>1
    <2>2. ASSUME NEW c \in Call, d.of = {c} PROVE S = {} \/ (S \in Replies /\ (d.yes => S \cap granted # {}))
      <3>1. S = Together(c)
        BY <2>2
      <3>2. ASSUME NEW T \in Replies, c \in T PROVE S \in Replies /\ (d.yes => S \cap granted # {})
        <4>1. S = T
          BY <3>1, <3>2, TogetherIs DEF IInv
        <4>2. d.yes => c \in granted
          BY <1>2, <2>2
        <4>3. QED
          BY <3>2, <4>1, <4>2
      <3>3. CASE \A T \in Replies : c \notin T
        BY <3>1, <3>3, TogetherNone
      <3>4. QED
        BY <3>2, <3>3
    <2>3. QED
      BY <1>1, <2>1, <2>2 DEF IInv, Decided
  <1>4. \A T \in Replies : T \subseteq Call
    <2> SUFFICES ASSUME NEW i \in DOMAIN history PROVE history[i].calls \subseteq Call
      BY DEF Replies
    <2>1. history[i] \in Message
      BY DEF IInv, Typed
    <2>2. QED
      BY <2>1 DEF Message
  <1>5. S \in SUBSET Call
    BY <1>3, <1>4
  <1>6. Replies' = Replies
    BY <1>1 DEF Replies
  <1> HIDE DEF S
  <1>7. /\ at' \in [Job -> Job_PC] /\ \A k \in Job : at'[k] = IF k = r THEN to ELSE at[k]
        /\ calls' \in [Job -> SUBSET Call]
        /\ \A k \in Job : calls'[k] = IF k = r THEN S ELSE calls[k]
    BY <1>1, <1>5 DEF IInv, Typed, Job_PC
  <1>8. Typed'
    BY <1>1, <1>7 DEF IInv, Typed
  <1>9. Alike'
    <2>1. \A T \in {calls'[k] : k \in Job} : T = S \/ T \in {calls[k] : k \in Job}
      BY <1>7
    <2>2. QED
      BY <2>1, <1>3, <1>6 DEF IInv, Alike
  <1>10. Cleared'
    <2>1. to = "handle" => Clear(S)
      BY <1>3 DEF Clear
    <2>2. QED
      BY <1>1, <1>6, <1>7, <2>1 DEF IInv, Cleared, Clear
  <1>11. Decided'
    BY <1>1, <1>7 DEF IInv, Decided, Job
  <1>12. RanAnnounced' /\ RanCleared'
    BY <1>1, <1>6 DEF IInv, RanAnnounced, RanCleared, Clear
  <1>13. QED
    BY <1>8, <1>9, <1>10, <1>11, <1>12 DEF IInv

\* The steps of a request to approve.
LEMMA ApproveStep ==
  ASSUME IInv, NEW r \in Approver, Approve(r)
  PROVE  IInv'
  <1>0. r \in Job
    BY DEF Job
  <1>1. ASSUME NEW c \in Call, ApproveRead(r, c) PROVE IInv'
    <2>1. PICK yes \in BOOLEAN : decides' = [decides EXCEPT ![r] = [of |-> {c}, yes |-> yes]]
      BY <1>1 DEF ApproveRead
    <2>2. /\ at[r] = "idle" /\ at' = [at EXCEPT ![r] = "read"]
          /\ UNCHANGED <<history, calls, todo, ran, granted>>
      BY <1>1 DEF ApproveRead, Goes, round, record
    <2>3. /\ at' \in [Job -> Job_PC] /\ \A k \in Job : at'[k] = IF k = r THEN "read" ELSE at[k]
          /\ decides' \in [Approver -> [of : SUBSET Call, yes : BOOLEAN]]
          /\ \A a \in Approver : decides'[a] = IF a = r THEN [of |-> {c}, yes |-> yes] ELSE decides[a]
      BY <1>0, <2>1, <2>2 DEF IInv, Typed, Job_PC
    <2>4. Typed'
      BY <2>2, <2>3 DEF IInv, Typed
    <2>5. Replies' = Replies
      BY <2>2 DEF Replies
    <2>6. Alike' /\ RanAnnounced' /\ RanCleared'
      BY <2>2, <2>5, QuietReplies
    <2>7. Cleared'
      BY <2>2, <2>3, <2>5 DEF IInv, Cleared, Clear
    <2>8. Decided'
      <3>1. \A a \in Approver : a # r => at'[a] = at[a] /\ decides'[a] = decides[a]
        BY <2>3 DEF Job
      <3>2. at'[r] = "read" /\ decides'[r].of = {c}
        BY <1>0, <2>3
      <3>3. QED
        BY <3>1, <3>2, <2>2 DEF IInv, Decided
    <2>9. QED
      BY <2>4, <2>6, <2>7, <2>8 DEF IInv
  <1>2. CASE ApproveCommit(r)
    <2>1. /\ at[r] = "read" /\ at' = [at EXCEPT ![r] = "decided"]
          /\ granted' = IF decides[r].yes THEN granted \cup decides[r].of ELSE granted
          /\ UNCHANGED <<history, calls, todo, decides, ran>>
      BY <1>2 DEF ApproveCommit, Goes, round
    <2>2. /\ at' \in [Job -> Job_PC] /\ \A k \in Job : at'[k] = IF k = r THEN "decided" ELSE at[k]
          /\ granted \subseteq granted' /\ granted' \subseteq Call
      BY <1>0, <2>1 DEF IInv, Typed, Job_PC
    <2>3. Typed'
      BY <2>1, <2>2 DEF IInv, Typed
    <2>4. Replies' = Replies
      BY <2>1 DEF Replies
    <2>5. Alike' /\ RanAnnounced' /\ RanCleared'
      BY <2>1, <2>2, <2>4, QuietReplies
    <2>6. Cleared'
      BY <2>1, <2>2, <2>4 DEF IInv, Cleared, Clear
    <2>7. Decided'
      <3>1. \A a \in Approver : a # r => at'[a] = at[a]
        BY <2>2 DEF Job
      <3>2. decides[r].yes => decides[r].of \subseteq granted'
        BY <2>1
      <3>3. QED
        BY <3>1, <3>2, <2>1, <2>2 DEF IInv, Decided
    <2>8. QED
      BY <2>3, <2>5, <2>6, <2>7 DEF IInv
  <1>3. CASE ApproveEnqueue(r)
    <2>1. /\ at[r] = "decided"
          /\ at' = [at EXCEPT ![r] = "queued"] \/ at' = [at EXCEPT ![r] = "over"]
          /\ UNCHANGED <<history, calls, todo, decides, ran, granted>>
      BY <1>3 DEF ApproveEnqueue, Goes, round, record
    <2>2. QED
      BY <1>0, <2>1, QuietStep DEF Job_PC
  <1>4. CASE Resume(r)
    BY <1>0, <1>4, ResumeStep
  <1>5. QED
    BY <1>1, <1>2, <1>3, <1>4 DEF Approve

\* The initial state satisfies the invariant.
LEMMA InitIInv == Init => IInv
  <1> SUFFICES ASSUME Init PROVE IInv
    OBVIOUS
  <1>1. Typed
    BY DEF Init, Typed, Job_PC
  <1>2. Replies = {}
    BY DEF Init, Replies
  <1>3. Alike /\ RanAnnounced /\ RanCleared
    BY <1>2 DEF Init, Alike, RanAnnounced, RanCleared
  <1>4. Cleared /\ Decided
    BY DEF Init, Cleared, Decided, Job
  <1>5. QED
    BY <1>1, <1>3, <1>4 DEF IInv

\* The invariant is inductive.
LEMMA Inductive == IInv /\ [Next]_vars => IInv'
  <1> SUFFICES ASSUME IInv, [Next]_vars PROVE IInv'
    OBVIOUS
  <1>1. CASE Next
    BY <1>1, FirstStep, RoundStep, FollowStep, ApproveStep DEF Next
  <1>2. CASE UNCHANGED vars
    <2>1. UNCHANGED <<history, at, calls, todo, decides, ran, granted>>
      BY <1>2 DEF vars, round, record
    <2>2. Replies' = Replies
      BY <2>1 DEF Replies
    <2>3. Typed'
      BY <2>1 DEF IInv, Typed
    <2>4. Alike' /\ RanAnnounced' /\ RanCleared'
      BY <2>1, <2>2, QuietReplies
    <2>5. Cleared' /\ Decided'
      BY <2>1, <2>2 DEF IInv, Cleared, Decided, Clear
    <2>6. QED
      BY <2>3, <2>4, <2>5 DEF IInv
  <1>3. QED
    BY <1>1, <1>2

(* No tool of a reply that has a call with requires_approval is started    *)
(* before the user has approved one of its calls, in whichever round, job  *)
(* or retry of the turn (check_approval_requirements,                      *)
(* execute_agent_resume_job).                                              *)
THEOREM Asked == Spec => []NothingRunsUnasked
  <1>1. IInv => NothingRunsUnasked
    <2> SUFFICES ASSUME IInv, NEW c \in ran, Together(c) \cap NeedsApproval # {}
                 PROVE  Together(c) \cap granted # {}
      BY DEF NothingRunsUnasked
    <2>1. PICK S \in Replies : c \in S
      BY DEF IInv, RanAnnounced
    <2>2. Together(c) = S
      BY <2>1, TogetherIs DEF IInv
    <2>3. QED
      BY <2>1, <2>2 DEF IInv, RanCleared, Clear
  <1>2. QED
    BY <1>1, InitIInv, Inductive, PTL DEF Spec
-----------------------------------------------------------------------------
(* What is answered, and what the LLM is shown of it.                      *)

Positions(c) == {i \in DOMAIN history : history[i] = Answer(c)}
Answered(c) == Positions(c) # {}

\* An answer comes after its call.
AnswersFollow ==
    \A k \in DOMAIN history : history[k].role = "tool" =>
        \E c \in Call : /\ history[k] = Answer(c)
                        /\ \E i \in DOMAIN history : i < k /\ Announces(history, i, c)

\* In a tool round, every call that is no longer to do was answered.
AnsweredSoFar ==
    \A j \in Job :
        /\ at[j] = "tools" => \A c \in calls[j] \ todo[j] : Answered(c)
        /\ at[j] = "follow" => \A c \in calls[j] : Answered(c)

\* The tool rounds that have not answered a call, and those that have, are
\* rounds it was handled in.
Awaiting(c) == {j \in Job : at[j] = "tools" /\ c \in todo[j]}

Tally ==
    /\ handled \in [Call -> Nat]
    /\ \A c \in Call : /\ IsFiniteSet(Awaiting(c))
                       /\ Answers(c) + Cardinality(Awaiting(c)) <= handled[c]

AInv == IInv /\ AnswersFollow /\ AnsweredSoFar /\ Tally

\* The answers to a call are counted.
LEMMA PositionsCount ==
  ASSUME history \in Seq(Message), NEW c
  PROVE  /\ IsFiniteSet(Positions(c)) /\ Answers(c) = Cardinality(Positions(c))
         /\ Answers(c) \in Nat /\ (Answered(c) <=> Answers(c) > 0)
  <1>1. DOMAIN history = 1..Len(history) /\ Len(history) \in Nat
    OBVIOUS
  <1>2. IsFiniteSet(DOMAIN history)
    BY <1>1, FS_Interval
  <1>3. IsFiniteSet(Positions(c))
    BY <1>2, FS_Subset DEF Positions
  <1>4. Answers(c) = Cardinality(Positions(c))
    BY DEF Answers, Positions
  <1>5. Cardinality(Positions(c)) \in Nat /\ (Cardinality(Positions(c)) = 0 <=> Positions(c) = {})
    BY <1>3, FS_CardinalityType, FS_EmptySet
  <1>6. QED
    BY <1>3, <1>4, <1>5 DEF Answered

\* What is appended comes after all that was there.
LEMMA Appended ==
  ASSUME history \in Seq(Message), NEW s \in Seq(Message), history' = history \o s
  PROVE  /\ history' \in Seq(Message)
         /\ \A i \in DOMAIN history : i \in DOMAIN history' /\ history'[i] = history[i]
         /\ \A n \in DOMAIN s :
               /\ Len(history) + n \in DOMAIN history' \ DOMAIN history
               /\ history'[Len(history) + n] = s[n]
         /\ \A k \in DOMAIN history' \ DOMAIN history :
               /\ \E n \in DOMAIN s : k = Len(history) + n
               /\ \A i \in DOMAIN history : i < k
  <1>1. /\ history' \in Seq(Message)
        /\ Len(history') = Len(history) + Len(s)
        /\ \A i \in 1..Len(history') :
              history'[i] = IF i <= Len(history) THEN history[i] ELSE s[i - Len(history)]
    OBVIOUS
  <1>2. /\ DOMAIN history = 1..Len(history) /\ DOMAIN s = 1..Len(s)
        /\ DOMAIN history' = 1..Len(history')
        /\ Len(history) \in Nat /\ Len(s) \in Nat
    BY <1>1
  <1>3. ASSUME NEW n \in DOMAIN s
        PROVE  /\ Len(history) + n \in DOMAIN history' \ DOMAIN history
               /\ history'[Len(history) + n] = s[n]
    <2>1. /\ Len(history) + n \in 1..Len(history') /\ ~(Len(history) + n <= Len(history))
          /\ (Len(history) + n) - Len(history) = n
      BY <1>1, <1>2
    <2>2. QED
      BY <1>1, <1>2, <2>1
  <1>4. ASSUME NEW k \in DOMAIN history' \ DOMAIN history
        PROVE  /\ \E n \in DOMAIN s : k = Len(history) + n
               /\ \A i \in DOMAIN history : i < k
    <2>1. k - Len(history) \in DOMAIN s /\ k = Len(history) + (k - Len(history))
      BY <1>1, <1>2
    <2>2. \A i \in DOMAIN history : i < k
      BY <1>1, <1>2
    <2>3. QED
      BY <2>1, <2>2
  <1>5. \A i \in DOMAIN history : i \in DOMAIN history' /\ history'[i] = history[i]
    BY <1>1, <1>2
  <1>6. QED
    BY <1>1, <1>3, <1>4, <1>5

\* A message that is no answer leaves the answers as they are.
LEMMA OthersSaved ==
  ASSUME history \in Seq(Message), AnswersFollow,
         UNCHANGED history \/ \E m \in Message : Save(m) /\ m.role # "tool"
  PROVE  AnswersFollow' /\ \A c : Positions(c)' = Positions(c)
  <1>1. CASE UNCHANGED history
    BY <1>1 DEF AnswersFollow, Announces, Positions
  <1>2. ASSUME NEW m \in Message, Save(m), m.role # "tool"
        PROVE  AnswersFollow' /\ \A c : Positions(c)' = Positions(c)
    <2>1. <<m>> \in Seq(Message) /\ history' = history \o <<m>>
      BY <1>2 DEF Save
    <2>2. /\ \A i \in DOMAIN history : i \in DOMAIN history' /\ history'[i] = history[i]
          /\ \A k \in DOMAIN history' \ DOMAIN history : history'[k] = m
      BY <2>1, Appended
    <2>3. AnswersFollow'
      BY <1>2, <2>2 DEF AnswersFollow, Announces
    <2>4. ASSUME NEW c PROVE Positions(c)' = Positions(c)
      <3>1. Answer(c) # m
        BY <1>2 DEF Answer
      <3>2. QED
        BY <2>2, <3>1 DEF Positions
    <2>5. QED
      BY <2>3, <2>4
  <1>3. QED
    BY <1>1, <1>2

\* The calls of U are answered, each once.
AnswersOf(s, U) ==
    /\ \A n \in DOMAIN s : \E c \in U : s[n] = Answer(c)
    /\ \A m, n \in DOMAIN s : s[m] = s[n] => m = n
    /\ \A c \in U : \E n \in DOMAIN s : s[n] = Answer(c)

\* Calls of U that are answered, each once, after they were announced.
LEMMA AnswersSaved ==
  ASSUME history \in Seq(Message), AnswersFollow, NEW U \in SUBSET Call,
         NEW s \in Seq(Message), history' = history \o s,
         AnswersOf(s, U),
         \A c \in U : \E i \in DOMAIN history : Announces(history, i, c)
  PROVE  /\ AnswersFollow'
         /\ \A c \in Call \ U : Positions(c)' = Positions(c)
         /\ \A c \in U : Answered(c)' /\ Answers(c)' = Answers(c) + 1
  <1> USE DEF AnswersOf
  <1>1. /\ history' \in Seq(Message)
        /\ \A i \in DOMAIN history : i \in DOMAIN history' /\ history'[i] = history[i]
        /\ \A n \in DOMAIN s :
               /\ Len(history) + n \in DOMAIN history' \ DOMAIN history
               /\ history'[Len(history) + n] = s[n]
        /\ \A k \in DOMAIN history' \ DOMAIN history :
               /\ \E n \in DOMAIN s : k = Len(history) + n
               /\ \A i \in DOMAIN history : i < k
    BY Appended
  <1>2. \A k \in DOMAIN history' \ DOMAIN history : \E c \in U : history'[k] = Answer(c)
    BY <1>1
  <1>3. AnswersFollow'
    <2> SUFFICES ASSUME NEW k \in DOMAIN history', history'[k].role = "tool"
                 PROVE  \E c \in Call :
                           /\ history'[k] = Answer(c)
                           /\ \E i \in DOMAIN history' : i < k /\ Announces(history', i, c)
      BY DEF AnswersFollow
    <2>1. CASE k \in DOMAIN history
      BY <1>1, <2>1 DEF AnswersFollow, Announces
    <2>2. CASE k \notin DOMAIN history
      <3>1. PICK c \in U : history'[k] = Answer(c)
        BY <1>2, <2>2
      <3>2. PICK i \in DOMAIN history : Announces(history, i, c)
        OBVIOUS
      <3>3. i \in DOMAIN history' /\ i < k /\ Announces(history', i, c)
        BY <1>1, <2>2, <3>2 DEF Announces
      <3>4. QED
        BY <3>1, <3>3
    <2>3. QED
      BY <2>1, <2>2
  <1>4. \A c, d : Answer(c) = Answer(d) => c = d
    <2> SUFFICES ASSUME NEW c, NEW d, Answer(c) = Answer(d) PROVE c = d
      OBVIOUS
    <2>1. {c} = {d}
      BY DEF Answer
    <2>2. QED
      BY <2>1
  <1>5. ASSUME NEW c \in Call \ U PROVE Positions(c)' = Positions(c)
    <2>1. \A k \in DOMAIN history' \ DOMAIN history : history'[k] # Answer(c)
      BY <1>2, <1>4
    <2>2. QED
      BY <1>1, <2>1 DEF Positions
  <1>6. ASSUME NEW c \in U PROVE Answered(c)' /\ Answers(c)' = Answers(c) + 1
    <2>1. PICK n \in DOMAIN s : s[n] = Answer(c)
      OBVIOUS
    <2> DEFINE k == Len(history) + n
    <2>2. k \in DOMAIN history' \ DOMAIN history /\ history'[k] = Answer(c)
      BY <1>1, <2>1
    <2>3. ASSUME NEW l \in DOMAIN history' \ DOMAIN history, history'[l] = Answer(c) PROVE l = k
      <3>1. PICK m \in DOMAIN s : l = Len(history) + m
        BY <1>1
      <3>2. s[m] = Answer(c)
        BY <1>1, <2>3, <3>1
      <3>3. QED
        BY <2>1, <3>1, <3>2
    <2> HIDE DEF k
    <2>4. Positions(c)' = Positions(c) \cup {k} /\ k \notin Positions(c)
      BY <1>1, <2>2, <2>3 DEF Positions
    <2>5. Cardinality(Positions(c) \cup {k}) = Cardinality(Positions(c)) + 1
      BY <2>4, PositionsCount, FS_AddElement
    <2>6. Answers(c) = Cardinality(Positions(c)) /\ Answers(c)' = Cardinality(Positions(c)')
      BY DEF Answers, Positions
    <2>7. QED
      BY <2>4, <2>5, <2>6 DEF Answered
  <1>7. QED
    BY <1>3, <1>5, <1>6

\* A job that goes anywhere but into a tool round or out of its end.
LEMMA QuietTally ==
  ASSUME AInv, NEW j \in Job, NEW to \in Job_PC \ {"tools", "follow"},
         at' = [at EXCEPT ![j] = to],
         UNCHANGED history \/ \E m \in Message : Save(m) /\ m.role # "tool",
         \A k \in Job : k # j => calls'[k] = calls[k],
         todo' = todo, handled' = handled
  PROVE  AnswersFollow' /\ AnsweredSoFar' /\ Tally'
  <1>1. AnswersFollow' /\ \A c : Positions(c)' = Positions(c)
    BY OthersSaved DEF AInv, IInv, Typed
  <1>2. \A k \in Job : at'[k] = IF k = j THEN to ELSE at[k]
    BY DEF AInv, IInv, Typed
  <1>3. AnsweredSoFar'
    BY <1>1, <1>2 DEF AInv, AnsweredSoFar, Answered
  <1>4. ASSUME NEW c \in Call
        PROVE  IsFiniteSet(Awaiting(c)') /\ Answers(c)' + Cardinality(Awaiting(c)') <= handled[c]
    <2>1. Awaiting(c)' \subseteq Awaiting(c)
      BY <1>2 DEF Awaiting
    <2>2. IsFiniteSet(Awaiting(c)) /\ Answers(c) + Cardinality(Awaiting(c)) <= handled[c]
      BY DEF AInv, Tally
    <2>3. IsFiniteSet(Awaiting(c)') /\ Cardinality(Awaiting(c)') <= Cardinality(Awaiting(c))
      BY <2>1, <2>2, FS_Subset
    <2>4. Cardinality(Awaiting(c)') \in Nat /\ Cardinality(Awaiting(c)) \in Nat
      BY <2>2, <2>3, FS_CardinalityType
    <2>5. Answers(c)' = Answers(c) /\ Answers(c) \in Nat
      <3>1. Answers(c) \in Nat
        BY PositionsCount DEF AInv, IInv, Typed
      <3>2. QED
        BY <1>1, <3>1 DEF Answers, Positions
    <2>6. handled[c] \in Nat
      BY DEF AInv, Tally
    <2>7. QED
      BY <2>2, <2>3, <2>4, <2>5, <2>6
  <1>5. Tally'
    BY <1>4 DEF AInv, Tally
  <1>6. QED
    BY <1>1, <1>3, <1>5

\* A round that starts handles each of its calls.
LEMMA StartTally ==
  ASSUME AInv, NEW j \in Job, StartTools(j)
  PROVE  AnswersFollow' /\ AnsweredSoFar' /\ Tally'
  <1>1. calls[j] \subseteq Call
    BY DEF AInv, IInv, Typed
  <1>2. UNCHANGED history \/ \E m \in Message : Save(m) /\ m.role # "tool"
    BY <1>1, Messages DEF StartTools, Assistant
  <1>3. AnswersFollow' /\ \A c : Positions(c)' = Positions(c)
    BY <1>2, OthersSaved DEF AInv, IInv, Typed
  <1>4. /\ at[j] = "handle" /\ calls' = calls
        /\ \A k \in Job : at'[k] = IF k = j THEN "tools" ELSE at[k]
        /\ \A k \in Job : todo'[k] = IF k = j THEN calls[j] ELSE todo[k]
    BY DEF StartTools, Goes, AInv, IInv, Typed
  <1>5. AnsweredSoFar'
    BY <1>3, <1>4 DEF AInv, AnsweredSoFar, Answered
  <1>6. handled' = [c \in Call |-> IF c \in calls[j] THEN handled[c] + 1 ELSE handled[c]]
    BY DEF StartTools
  <1>7. handled' \in [Call -> Nat]
    BY <1>6 DEF AInv, Tally
  <1>8. ASSUME NEW c \in Call
        PROVE  IsFiniteSet(Awaiting(c)') /\ Answers(c)' + Cardinality(Awaiting(c)') <= handled'[c]
    <2>1. Awaiting(c)' = Awaiting(c) \cup (IF c \in calls[j] THEN {j} ELSE {})
      BY <1>4 DEF Awaiting
    <2>2. /\ IsFiniteSet(Awaiting(c)) /\ Answers(c) + Cardinality(Awaiting(c)) <= handled[c]
          /\ handled[c] \in Nat
      BY DEF AInv, Tally
    <2>3. Cardinality(Awaiting(c)) \in Nat
      BY <2>2, FS_CardinalityType
    <2>4. Answers(c)' = Answers(c) /\ Answers(c) \in Nat
      <3>1. Answers(c) \in Nat
        BY PositionsCount DEF AInv, IInv, Typed
      <3>2. QED
        BY <1>3, <3>1 DEF Answers, Positions
    <2>5. CASE c \in calls[j]
      <3>1. j \notin Awaiting(c)
        BY <1>4 DEF Awaiting
      <3>2. Awaiting(c)' = Awaiting(c) \cup {j}
        BY <2>1, <2>5
      <3>3. IsFiniteSet(Awaiting(c)') /\ Cardinality(Awaiting(c)') = Cardinality(Awaiting(c)) + 1
        BY <2>2, <3>1, <3>2, FS_AddElement
      <3>4. handled'[c] = handled[c] + 1
        BY <1>6, <2>5
      <3>5. QED
        BY <2>2, <2>3, <2>4, <3>3, <3>4
    <2>6. CASE c \notin calls[j]
      <3>1. Awaiting(c)' = Awaiting(c) /\ handled'[c] = handled[c]
        BY <1>6, <2>1, <2>6
      <3>2. QED
        BY <2>2, <2>4, <3>1
    <2>7. QED
      BY <2>5, <2>6
  <1>9. QED
    BY <1>3, <1>5, <1>7, <1>8 DEF Tally

\* Calls that are answered are no longer to do.
LEMMA AnswerTally ==
  ASSUME AInv, NEW j \in Job, at[j] = "tools", NEW U \in SUBSET todo[j],
         UNCHANGED <<at, calls, handled>>, todo' = [todo EXCEPT ![j] = todo[j] \ U],
         NEW s \in Seq(Message), history' = history \o s,
         AnswersOf(s, U)
  PROVE  AnswersFollow' /\ AnsweredSoFar' /\ Tally'
  <1>1. todo[j] \subseteq calls[j] /\ calls[j] \subseteq Call
    BY DEF AInv, IInv, Typed, Cleared
  <1>2. \A c \in U : \E i \in DOMAIN history : Announces(history, i, c)
    <2> SUFFICES ASSUME NEW c \in U PROVE \E i \in DOMAIN history : Announces(history, i, c)
      OBVIOUS
    <2>1. c \in calls[j] /\ calls[j] \in Replies
      BY <1>1 DEF AInv, IInv, Cleared
    <2>2. QED
      BY <2>1 DEF Replies, Announces
  <1>3. /\ AnswersFollow'
        /\ \A c \in Call \ U : Positions(c)' = Positions(c)
        /\ \A c \in U : Answered(c)' /\ Answers(c)' = Answers(c) + 1
    BY <1>1, <1>2, AnswersSaved DEF AInv, IInv, Typed
  <1>4. \A k \in Job : todo'[k] = IF k = j THEN todo[j] \ U ELSE todo[k]
    BY DEF AInv, IInv, Typed
  <1>5. \A c \in Call : Answered(c) => Answered(c)'
    BY <1>3 DEF Answered
  <1>6. AnsweredSoFar'
    <2>1. \A k \in Job : calls[k] \subseteq Call
      BY DEF AInv, IInv, Typed
    <2>2. \A k \in Job : k # j => todo'[k] = todo[k]
      BY <1>4
    <2>3. \A c \in calls[j] \ todo'[j] : Answered(c)'
      BY <1>1, <1>3, <1>4, <1>5 DEF AInv, AnsweredSoFar
    <2>4. ASSUME NEW k \in Job
          PROVE  /\ at[k] = "tools" => \A c \in calls[k] \ todo'[k] : Answered(c)'
                 /\ at[k] = "follow" => \A c \in calls[k] : Answered(c)'
      <3>1. CASE k = j
        BY <2>3, <3>1
      <3>2. CASE k # j
        BY <1>5, <2>1, <2>2, <3>2 DEF AInv, AnsweredSoFar
      <3>3. QED
        BY <3>1, <3>2
    <2>5. QED
      BY <2>4 DEF AnsweredSoFar
  <1>7. ASSUME NEW c \in Call
        PROVE  IsFiniteSet(Awaiting(c)') /\ Answers(c)' + Cardinality(Awaiting(c)') <= handled[c]
    <2>1. /\ IsFiniteSet(Awaiting(c)) /\ Answers(c) + Cardinality(Awaiting(c)) <= handled[c]
          /\ handled[c] \in Nat
      BY DEF AInv, Tally
    <2>2. Cardinality(Awaiting(c)) \in Nat
      BY <2>1, FS_CardinalityType
    <2>3. Answers(c) \in Nat
      BY PositionsCount DEF AInv, IInv, Typed
    <2>4. CASE c \in U
      <3>1. j \in Awaiting(c) /\ Awaiting(c)' = Awaiting(c) \ {j}
        BY <1>4, <2>4 DEF Awaiting
      <3>2. IsFiniteSet(Awaiting(c)') /\ Cardinality(Awaiting(c)') = Cardinality(Awaiting(c)) - 1
        BY <2>1, <3>1, FS_RemoveElement
      <3>3. Answers(c)' = Answers(c) + 1
        BY <1>3, <2>4
      <3>4. QED
        BY <2>1, <2>2, <2>3, <3>2, <3>3
    <2>5. CASE c \notin U
      <3>1. Awaiting(c)' = Awaiting(c)
        BY <1>4, <2>5 DEF Awaiting
      <3>2. Answers(c)' = Answers(c)
        BY <1>3, <2>5 DEF Answers, Positions
      <3>3. QED
        BY <2>1, <3>1, <3>2
    <2>6. QED
      BY <2>4, <2>5
  <1>8. QED
    BY <1>3, <1>6, <1>7 DEF AInv, Tally

\* The steps of a tool round.
LEMMA RoundTally ==
  ASSUME AInv, NEW j \in Job, ToolRound(j)
  PROVE  AnswersFollow' /\ AnsweredSoFar' /\ Tally'
  <1>1. CASE ToolsDone(j)
    <2>1. /\ at[j] = "tools" /\ todo[j] = {} /\ at' = [at EXCEPT ![j] = "follow"]
          /\ UNCHANGED <<history, calls, todo, handled>>
      BY <1>1 DEF ToolsDone, Goes, round, record
    <2>2. \A k \in Job : at'[k] = IF k = j THEN "follow" ELSE at[k]
      BY <2>1 DEF AInv, IInv, Typed
    <2>3. AnswersFollow' /\ \A c : Positions(c)' = Positions(c)
      BY <2>1, OthersSaved DEF AInv, IInv, Typed
    <2>4. AnsweredSoFar'
      BY <2>1, <2>2, <2>3 DEF AInv, AnsweredSoFar, Answered
    <2>5. \A c \in Call : Awaiting(c)' = Awaiting(c) /\ Answers(c)' = Answers(c)
      BY <2>1, <2>2 DEF Awaiting, Answers
    <2>6. QED
      BY <2>1, <2>3, <2>4, <2>5 DEF AInv, Tally
  <1>2. CASE ToolsTimeOut(j)
    <2> DEFINE U == todo[j] \ Sequential
               n == Cardinality(U)
    <2>1. /\ at[j] = "tools" /\ UNCHANGED <<at, calls, handled>>
          /\ todo' = [todo EXCEPT ![j] = todo[j] \cap Sequential]
      BY <1>2 DEF ToolsTimeOut, record
    <2>2. todo[j] \cap Sequential = todo[j] \ U
      OBVIOUS
    <2>3. PICK s \in Orders(U) : history' = history \o [i \in DOMAIN s |-> Answer(s[i])]
      BY <1>2 DEF ToolsTimeOut
    <2>4. U \subseteq Call /\ IsFiniteSet(U)
      BY ConversationAssumption, FS_Subset DEF AInv, IInv, Typed
    <2>5. n \in Nat
      BY <2>4, FS_CardinalityType
    <2> HIDE DEF U, n
    <2>6. /\ s \in [1..n -> U] /\ {s[i] : i \in 1..n} = U
          /\ DOMAIN s = 1..n
      BY <2>3 DEF Orders, n
    <2>7. \A i, k \in 1..n : s[i] = s[k] => i = k
      <3>1. s \in Surjection(1..n, U)
        BY <2>6 DEF Surjection
      <3>2. IsFiniteSet(1..n) /\ Cardinality(1..n) = n
        BY <2>5, FS_Interval
      <3>3. s \in Injection(1..n, U)
        BY <3>1, <3>2, FS_SurjSameCardinalityImpliesInj DEF n
      <3>4. QED
        BY <3>3 DEF Injection, IsInjective
    <2> DEFINE t == [i \in DOMAIN s |-> Answer(s[i])]
    <2>8. DOMAIN t = 1..n /\ \A i \in 1..n : t[i] = Answer(s[i]) /\ s[i] \in U
      BY <2>6
    <2>9. t \in Seq(Message)
      <3>1. t = [i \in 1..n |-> Answer(s[i])]
        BY <2>6
      <3>2. \A i \in 1..n : Answer(s[i]) \in Message
        BY <2>4, <2>8, Messages
      <3>3. t \in [1..n -> Message]
        BY <3>1, <3>2
      <3>4. [1..n -> Message] \subseteq Seq(Message)
        BY <2>5, SeqDef
      <3>5. QED
        BY <3>3, <3>4
    <2> HIDE DEF t
    <2>10. \A c, d : Answer(c) = Answer(d) => c = d
      BY SMT DEF Answer
    <2>11. history' = history \o t
      BY <2>3 DEF t
    <2>12. \A i \in DOMAIN t : \E c \in U : t[i] = Answer(c)
      BY <2>8
    <2>13. \A i, k \in DOMAIN t : t[i] = t[k] => i = k
      BY <2>7, <2>8, <2>10
    <2>14. \A c \in U : \E i \in DOMAIN t : t[i] = Answer(c)
      BY <2>6, <2>8
    <2>15. AnswersOf(t, U)
      BY <2>12, <2>13, <2>14 DEF AnswersOf
    <2>16. U \in SUBSET todo[j] /\ todo' = [todo EXCEPT ![j] = todo[j] \ U]
      BY <2>1, <2>2 DEF U
    <2>17. QED
      BY <2>1, <2>9, <2>11, <2>15, <2>16, AnswerTally
  <1>3. ASSUME NEW c \in Call, ToolEnds(j, c) \/ RunSequential(j, c)
        PROVE  AnswersFollow' /\ AnsweredSoFar' /\ Tally'
    <2>1. /\ at[j] = "tools" /\ todo' = [todo EXCEPT ![j] = todo[j] \ {c}] /\ Save(Answer(c))
          /\ UNCHANGED <<at, calls, handled>>
          /\ {c} \in SUBSET todo[j]
      BY <1>3 DEF ToolEnds, RunSequential, record
    <2>2. /\ <<Answer(c)>> \in Seq(Message) /\ DOMAIN <<Answer(c)>> = {1}
          /\ <<Answer(c)>>[1] = Answer(c)
      BY Messages
    <2>3. history' = history \o <<Answer(c)>>
      <3>1. history \in Seq(Message) /\ Answer(c) \in Message
        BY Messages DEF AInv, IInv, Typed
      <3>2. QED
        BY <2>1, <3>1 DEF Save
    <2>4. AnswersOf(<<Answer(c)>>, {c})
      BY <2>2 DEF AnswersOf
    <2>5. QED
      BY <2>1, <2>2, <2>3, <2>4, AnswerTally
  <1>4. QED
    BY <1>1, <1>2, <1>3, StartTally DEF ToolRound

\* The steps of the first turn and of a follow-up, and failures.
LEMMA TurnTally ==
  ASSUME AInv, NEW j \in Job, FirstTurn(j) \/ FollowUp(j) \/ Fail(j) \/ Interrupt(j)
  PROVE  AnswersFollow' /\ AnsweredSoFar' /\ Tally'
  <1> DEFINE Others == UNCHANGED history \/ \E m \in Message : Save(m) /\ m.role # "tool"
             Places == Job_PC \ {"tools", "follow"}
  <1>1. /\ Save(User) => Others
        /\ \A S \in SUBSET Call : Save(Assistant(S)) => Others
    BY Messages DEF User, Assistant
  <1>2. {} \in SUBSET Call
    OBVIOUS
  <1> HIDE DEF Others
  <1>3. calls \in [Job -> SUBSET Call]
    BY DEF AInv, IInv, Typed
  <1> SUFFICES /\ \E to \in Places : at' = [at EXCEPT ![j] = to]
               /\ Others /\ (\A k \in Job : k # j => calls'[k] = calls[k])
               /\ UNCHANGED <<todo, handled>>
    BY QuietTally DEF Others
  <1> USE <1>1, <1>2, <1>3
  <1>4. CASE Send(j) \/ ReplyText(j) \/ SaveUser(j) \/ FollowText(j) \/ IterationLimit(j)
    <2>1. UNCHANGED <<calls, todo, handled>>
      BY <1>4 DEF Send, ReplyText, SaveUser, FollowText, IterationLimit, round, record
    <2>2. Others
      BY <1>4 DEF Send, ReplyText, SaveUser, FollowText, IterationLimit, Others
    <2>3. \E to \in Places : at' = [at EXCEPT ![j] = to]
      BY <1>4 DEF Send, ReplyText, SaveUser, FollowText, IterationLimit, Goes, Job_PC
    <2>4. QED
      BY <2>1, <2>2, <2>3
  <1>5. CASE CheckReply(j) \/ NextRound(j)
    <2>1. UNCHANGED <<history, calls, todo, handled>>
      BY <1>5 DEF CheckReply, NextRound, round, record
    <2>2. \E to \in Places : at' = [at EXCEPT ![j] = to]
      BY <1>5 DEF CheckReply, NextRound, CheckApproval, Goes, Job_PC
    <2>3. QED
      BY <2>1, <2>2 DEF Others
  <1>6. ASSUME NEW S \in SUBSET Call, ReplyCalls(j, S) \/ FollowCalls(j, S)
        PROVE  /\ \E to \in Places : at' = [at EXCEPT ![j] = to]
               /\ Others /\ (\A k \in Job : k # j => calls'[k] = calls[k])
               /\ UNCHANGED <<todo, handled>>
    <2>1. calls' = [calls EXCEPT ![j] = S] /\ UNCHANGED <<todo, handled>>
      BY <1>6 DEF ReplyCalls, FollowCalls, record
    <2>2. Others
      BY <1>6 DEF ReplyCalls, FollowCalls, Others
    <2>3. \E to \in Places : at' = [at EXCEPT ![j] = to]
      <3>1. \/ at' = [at EXCEPT ![j] = "replied"] \/ at' = [at EXCEPT ![j] = "handle"]
            \/ at' = [at EXCEPT ![j] = "over"] \/ at' = [at EXCEPT ![j] = "followed"]
        BY <1>6 DEF ReplyCalls, FollowCalls, Goes
      <3>2. QED
        BY <3>1 DEF Job_PC
    <2>4. QED
      BY <2>1, <2>2, <2>3
  <1>7. CASE Fail(j)
    <2>1. UNCHANGED <<calls, todo, handled>> /\ at' = [at EXCEPT ![j] = "over"]
      BY <1>7 DEF Fail, round, record
    <2>2. Others
      BY <1>7 DEF Fail, Others
    <2>3. QED
      BY <2>1, <2>2 DEF Job_PC
  <1>8. CASE Interrupt(j)
    <2>1. /\ UNCHANGED <<calls, todo, handled>>
          /\ at' = [at EXCEPT ![j] = "over"]
      BY <1>8 DEF Interrupt, round, record
    <2>2. Save(Assistant({})) \/ UNCHANGED history
      BY <1>8 DEF Interrupt
    <2>3. Others
      BY <2>2 DEF Others
    <2>4. QED
      BY <2>1, <2>3 DEF Job_PC
  <1>9. QED
    BY <1>4, <1>5, <1>6, <1>7, <1>8 DEF FirstTurn, FollowUp

\* The steps of a request to approve.
LEMMA ApproveTally ==
  ASSUME AInv, NEW r \in Approver, Approve(r)
  PROVE  AnswersFollow' /\ AnsweredSoFar' /\ Tally'
  <1>1. r \in Job /\ calls \in [Job -> SUBSET Call]
    BY DEF Job, AInv, IInv, Typed
  <1>2. UNCHANGED <<history, todo, handled>> /\ \A k \in Job : k # r => calls'[k] = calls[k]
    BY <1>1 DEF Approve, ApproveRead, ApproveCommit, ApproveEnqueue, Resume, round, record
  <1>3. \E to \in Job_PC \ {"tools", "follow"} : at' = [at EXCEPT ![r] = to]
    BY DEF Approve, ApproveRead, ApproveCommit, ApproveEnqueue, Resume, Goes, Job_PC
  <1>4. QED
    BY <1>1, <1>2, <1>3, QuietTally

LEMMA InitAInv == Init => AInv
  <1> SUFFICES ASSUME Init PROVE AInv
    OBVIOUS
  <1>1. AnswersFollow /\ AnsweredSoFar
    BY DEF Init, AnswersFollow, AnsweredSoFar
  <1>2. ASSUME NEW c \in Call PROVE Awaiting(c) = {} /\ Answers(c) = 0 /\ handled[c] = 0
    <2>1. {i \in DOMAIN history : history[i] = Answer(c)} = {}
      BY DEF Init
    <2>2. QED
      BY <2>1, FS_EmptySet DEF Init, Awaiting, Answers
  <1>3. Tally
    <2>1. IsFiniteSet({}) /\ Cardinality({}) = 0
      BY FS_EmptySet
    <2>2. handled \in [Call -> Nat]
      BY DEF Init
    <2>3. ASSUME NEW c \in Call
          PROVE  IsFiniteSet(Awaiting(c)) /\ Answers(c) + Cardinality(Awaiting(c)) <= handled[c]
      BY <1>2, <2>1
    <2>4. QED
      BY <2>2, <2>3 DEF Tally
  <1>4. QED
    BY <1>1, <1>3, InitIInv DEF AInv

\* The invariant is inductive.
LEMMA AInductive == AInv /\ [Next]_vars => AInv'
  <1> SUFFICES ASSUME AInv, [Next]_vars PROVE AInv'
    OBVIOUS
  <1>1. IInv'
    BY Inductive DEF AInv
  <1>2. CASE Next
    BY <1>1, <1>2, RoundTally, TurnTally, ApproveTally DEF Next, AInv
  <1>3. CASE UNCHANGED vars
    BY <1>1, <1>3 DEF vars, round, record, AInv, AnswersFollow, AnsweredSoFar, Tally,
                      Announces, Answered, Positions, Answers, Awaiting
  <1>4. QED
    BY <1>2, <1>3

(* The LLM is asked to go on only when each call of the round has an       *)
(* answer, and a call is answered once in each round it is in: however its *)
(* tool ended, when the round timed out and when the job was interrupted   *)
(* and run again (_handle_tool_calls).                                     *)
THEOREM AnsweredInRounds == Spec => []AnsweredPerRound
  <1>1. AInv => AnsweredPerRound
    <2> SUFFICES ASSUME AInv PROVE AnsweredPerRound
      OBVIOUS
    <2>1. history \in Seq(Message) /\ calls \in [Job -> SUBSET Call]
      BY DEF AInv, IInv, Typed
    <2>2. ASSUME NEW j \in Job, at[j] = "follow", NEW c \in calls[j] PROVE Answers(c) > 0
      BY <2>1, <2>2, PositionsCount DEF AInv, AnsweredSoFar
    <2>3. ASSUME NEW c \in Call PROVE Answers(c) <= handled[c]
      <3>1. /\ IsFiniteSet(Awaiting(c)) /\ Answers(c) + Cardinality(Awaiting(c)) <= handled[c]
            /\ handled[c] \in Nat
        BY DEF AInv, Tally
      <3>2. Cardinality(Awaiting(c)) \in Nat /\ Answers(c) \in Nat
        BY <2>1, <3>1, FS_CardinalityType, PositionsCount
      <3>3. QED
        BY <3>1, <3>2
    <2>4. QED
      BY <2>2, <2>3 DEF AnsweredPerRound
  <1>2. QED
    BY <1>1, InitAInv, AInductive, PTL DEF Spec

\* A set of numbers up to a bound has a last one.
LEMMA LastOne ==
  ASSUME NEW n \in Nat, NEW A \in SUBSET (1..n), A # {}
  PROVE  \E i \in A : \A m \in A : m <= i
  <1> DEFINE B == {n - i : i \in A}
  <1>1. B \subseteq Nat /\ B # {}
    <2>1. \A i \in A : n - i \in Nat
      OBVIOUS
    <2>2. QED
      BY <2>1
  <1> DEFINE below == {p \in Nat \X Nat : p[1] < p[2]}
  <1>2. IsWellFoundedOn(below, Nat)
    BY NatLessThanWellFounded DEF OpToRel
  <1>3. PICK d \in B : \A k \in B : ~(<<k, d>> \in below)
    <2> HIDE DEF below
    <2>1. QED
      BY <1>1, <1>2, WFMin
  <1>4. \A k \in B : d <= k
    <2>1. SUFFICES ASSUME NEW k \in B PROVE d <= k
      OBVIOUS
    <2>2. k \in Nat /\ d \in Nat
      BY <1>1
    <2>3. ~(k < d)
      BY <1>3, <2>2
    <2>4. QED
      BY <2>2, <2>3
  <1>5. PICK i \in A : d = n - i
    OBVIOUS
  <1>6. \A m \in A : n - i <= n - m
    BY <1>4, <1>5
  <1>7. QED
    BY <1>6

(* For every window and every history the jobs can leave, the LLM is shown *)
(* no answer ahead of its call: in a follow-up turn none of the history    *)
(* (_stream_followup_after_tools), in a first turn none that its window    *)
(* begins with, and these are all kept, and none of a call that was        *)
(* announced once; such a call, if it was answered, is said to be          *)
(* interrupted only when it was put before the window                      *)
(* (build_conversation_history).                                           *)
THEOREM CallsShownFirst == Spec => []AnswersFollowCalls
  <1>1. AInv => AnswersFollowCalls
    <2> SUFFICES ASSUME AInv PROVE AnswersFollowCalls
      OBVIOUS
    <2> DEFINE h == history
               shown == Shown(h)
               called == CallsOf(h, shown, "assistant")
    <2>1. DOMAIN h = 1..Len(h) /\ Len(h) \in Nat
      BY DEF AInv, IInv, Typed
    <2>2. First(h) \in Nat \ {0} /\ (First(h) <= Len(h) \/ First(h) = 1)
      BY <2>1, ConversationAssumption DEF First
    <2>3. shown = Prepended(h) \cup First(h)..Len(h) /\ shown \subseteq DOMAIN h
      BY <2>1, <2>2 DEF Shown, Prepended
    <2>4. Prompt(h) = {i \in shown : h[i].role = "tool" => h[i].calls \subseteq called}
      BY DEF Prompt
    <2>5. \A c : \A i \in shown : Announces(h, i, c) => i \in Prompt(h) /\ c \in called
      BY <2>4 DEF Announces, CallsOf
    <2>6. \A c \in called : \E i \in Prompt(h) : Announces(h, i, c)
      BY <2>4 DEF Announces, CallsOf
    <2> HIDE DEF h, shown, called
    <2>7. ASSUME NEW k \in DOMAIN h, h[k].role = "tool"
          PROVE  \E c \in Call : /\ h[k] = Answer(c) /\ h[k].calls = {c}
                                 /\ \E i \in 1..k - 1 : Announces(h, i, c)
      <3>1. PICK c \in Call : /\ h[k] = Answer(c)
                              /\ \E i \in DOMAIN h : i < k /\ Announces(h, i, c)
        BY <2>7 DEF h, AInv, AnswersFollow
      <3>2. h[k].calls = {c}
        BY <3>1 DEF Answer
      <3>3. QED
        BY <2>1, <2>7, <3>1, <3>2
    <2>8. ASSUME NEW c \in Call, NEW k \in DOMAIN h, AnswerAt(k, c)
          PROVE  \E i \in 1..k - 1 : Announces(h, i, c)
      <3>1. h[k].role = "tool" /\ h[k].calls = {c}
        BY <2>8 DEF AnswerAt, Answer, h
      <3>2. PICK d \in Call : h[k].calls = {d} /\ \E i \in 1..k - 1 : Announces(h, i, d)
        BY <2>7, <3>1
      <3>3. c = d
        BY <3>1, <3>2
      <3>4. QED
        BY <3>2, <3>3
    <2>9. ASSUME NEW c \in Leading(h)
          PROVE  \E k \in Prompt(h) : AnswerAt(k, c) /\ ShownAfterCall(c, k)
      <3>1. PICK k \in First(h)..Len(h) : /\ \A n \in First(h)..k : h[n].role = "tool"
                                          /\ c \in h[k].calls
        BY <2>9 DEF Leading
      <3>2. k \in DOMAIN h /\ k \in shown /\ h[k].role = "tool"
        BY <2>1, <2>2, <2>3, <3>1
      <3>3. PICK d \in Call : /\ h[k] = Answer(d) /\ h[k].calls = {d}
                              /\ \E i \in 1..k - 1 : Announces(h, i, d)
        BY <2>7, <3>2
      <3>4. c = d /\ AnswerAt(k, c)
        BY <3>1, <3>2, <3>3 DEF AnswerAt, h
      <3>5. PICK i \in 1..k - 1 : Announces(h, i, c)
        BY <3>3, <3>4
      <3>6. i \in 1..First(h) - 1
        <4>1. h[i].role # "tool"
          BY <3>5 DEF Announces
        <4>2. i \notin First(h)..k
          BY <3>1, <4>1
        <4>3. QED
          BY <2>1, <2>2, <3>1, <3>5, <4>2
      <3>7. PICK n \in 1..First(h) - 1 : /\ Announces(h, n, c)
                                         /\ \A m \in n + 1..First(h) - 1 : ~Announces(h, m, c)
        <4> DEFINE A == {m \in 1..First(h) - 1 : Announces(h, m, c)}
        <4>1. A \subseteq 1..First(h) - 1 /\ i \in A
          BY <3>5, <3>6
        <4>2. First(h) - 1 \in Nat /\ A \in SUBSET (1..First(h) - 1) /\ A # {}
          BY <2>2, <4>1
        <4>3. PICK n \in A : \A m \in A : m <= n
          <5> HIDE DEF A
          <5>1. QED
            BY <4>2, LastOne
        <4>4. QED
          BY <2>2, <4>3
      <3>8. n \in Prepended(h)
        BY <2>9, <3>7 DEF Prepended
      <3>9. n \in Prompt(h) /\ c \in called /\ n < k
        BY <2>2, <2>3, <2>5, <3>1, <3>7, <3>8
      <3>10. k \in Prompt(h)
        BY <2>4, <3>2, <3>3, <3>4, <3>9
      <3>11. QED
        BY <3>4, <3>7, <3>9, <3>10 DEF ShownAfterCall, h
    <2>10. ASSUME NEW c \in Call, NEW k \in Prompt(h), AnnouncedOnce(c), AnswerAt(k, c)
           PROVE  ShownAfterCall(c, k)
      <3>1. k \in DOMAIN h /\ h[k].role = "tool" /\ h[k].calls = {c}
        BY <2>10 DEF AnswerAt, Answer, h
      <3>2. PICK n \in 1..k - 1 : Announces(h, n, c)
        BY <2>8, <2>10, <3>1
      <3>3. c \in called
        BY <2>4, <3>1
      <3>4. PICK i \in Prompt(h) : Announces(h, i, c)
        BY <2>6, <3>3
      <3>5. i \in DOMAIN h /\ n \in DOMAIN h
        BY <2>1, <2>3, <2>4, <3>1, <3>2, <3>4
      <3>6. i = n
        BY <2>10, <3>2, <3>4, <3>5 DEF AnnouncedOnce, h
      <3>7. n < k
        BY <2>1, <3>1, <3>2
      <3>8. QED
        BY <3>4, <3>6, <3>7 DEF ShownAfterCall, h
    <2>11. ASSUME NEW c \in Invented(h), NEW k \in DOMAIN h, AnnouncedOnce(c), AnswerAt(k, c)
           PROVE  \E i \in Prepended(h) : Announces(h, i, c)
      <3>1. c \in called /\ c \notin CallsOf(h, shown, "tool")
        BY <2>11 DEF Invented, shown, called
      <3>2. PICK i \in shown : Announces(h, i, c)
        BY <3>1 DEF called, CallsOf, Announces
      <3>3. h[k].role = "tool" /\ h[k].calls = {c} /\ k \notin shown
        BY <2>11, <3>1 DEF AnswerAt, Answer, CallsOf, h
      <3>4. PICK n \in 1..k - 1 : Announces(h, n, c)
        BY <2>7, <3>3
      <3>5. i = n
        BY <2>1, <2>3, <2>11, <3>2, <3>4 DEF AnnouncedOnce, h
      <3>6. i \notin First(h)..Len(h)
        BY <2>1, <2>2, <2>3, <2>11, <3>3, <3>4, <3>5
      <3>7. QED
        BY <2>3, <3>2, <3>6
    <2>12. QED
      BY <2>8, <2>9, <2>10, <2>11 DEF AnswersFollowCalls, h
  <1>2. QED
    BY <1>1, InitAInv, AInductive, PTL DEF Spec

=============================================================================
