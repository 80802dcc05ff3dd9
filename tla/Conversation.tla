---------------------------- MODULE Conversation ----------------------------
(***************************************************************************)
(* One chat: the messages it keeps, the jobs that answer the user's        *)
(* messages with LLM turns and tool rounds, and the approvals of tool      *)
(* calls.                                                                  *)
(*                                                                         *)
(*   services/message_service.py       send_message, send_message_stream,  *)
(*                                     _stream_response,                   *)
(*                                     _handle_tool_calls,                 *)
(*                                     _stream_followup_after_tools        *)
(*   services/conversation_history.py  build_conversation_history          *)
(*   services/tool_execution.py        check_approval_requirements         *)
(*   queue/agent_jobs.py               execute_agent_message_job,          *)
(*                                     execute_agent_resume_job            *)
(*   api/runtime/endpoints/chats.py    approve_tool_call                   *)
(*                                                                         *)
(* A step is what happens up to a commit or to the end of an await.        *)
(* Contents, hooks and the LLM's choices are abstracted to what a message  *)
(* is and which calls it holds; a call to an agent is a tool like any      *)
(* other here (its suspension is the subject of Delegation).  Messages are *)
(* listed in the order of their commits.                                   *)
(***************************************************************************)
EXTENDS Integers, Sequences, FiniteSets

CONSTANTS
    Call,           \* ids of the tool calls the LLM may make
    NeedsApproval,  \* those whose function has requires_approval
    Sequential,     \* those of the tools that run one by one
    Streamed,       \* messages sent to be streamed, inline or by a worker
    Plain,          \* messages sent through send_message
    Approver,       \* requests to approve or reject a call
    Window,         \* settings.max_history_messages
    Recent,         \* messages searched for the announcement of a call, 10
    MaxIterations,  \* settings.max_tool_iterations
    MaxFaults       \* bound: interruptions and lost requests

Job == Streamed \cup Plain \cup Approver

ASSUME ConversationAssumption ==
    /\ IsFiniteSet(Call)
    /\ NeedsApproval \subseteq Call /\ Sequential \subseteq Call
    /\ Streamed \cap Plain = {} /\ (Streamed \cup Plain) \cap Approver = {}
    /\ Window \in Nat \ {0} /\ Recent \in Nat \ {0}
    /\ MaxIterations \in Nat /\ MaxFaults \in Nat

VARIABLES
    history,    \* the rows of messages of the chat
    approval,   \* PendingToolApproval.approved of each call, or none
    at,         \* where each job is
    calls,      \* the calls of the tool round it is in
    todo,       \* those not answered yet
    depth,      \* its depth: tool rounds before this one
    decides,    \* what an approval request is about: a call and an answer
    ran,        \* history: calls whose tool was started
    granted,    \* history: calls whose approval was committed
    handled,    \* history: tool rounds started with each call
    faults

round == <<calls, todo, depth>>
record == <<ran, granted, handled>>
vars == <<history, approval, at, round, decides, record, faults>>

User == [role |-> "user", calls |-> {}]
Assistant(S) == [role |-> "assistant", calls |-> S]
Answer(c) == [role |-> "tool", calls |-> {c}]

Init ==
    /\ history = <<>>
    /\ approval = [c \in Call |-> "none"]
    /\ at = [j \in Job |-> "idle"]
    /\ calls = [j \in Job |-> {}] /\ todo = [j \in Job |-> {}]
    /\ depth = [j \in Job |-> 0]
    /\ decides = [r \in Approver |-> [of |-> {}, yes |-> FALSE]]
    /\ ran = {} /\ granted = {}
    /\ handled = [c \in Call |-> 0]
    /\ faults = 0

Fault == faults < MaxFaults /\ faults' = faults + 1
Save(message) == history' = Append(history, message)
Goes(j, from, to) == at[j] = from /\ at' = [at EXCEPT ![j] = to]

-----------------------------------------------------------------------------
(***************************************************************************)
(* build_conversation_history, as sets of positions in the messages h.     *)
(***************************************************************************)

First(h) == IF Len(h) > Window THEN Len(h) - Window + 1 ELSE 1
Announces(h, i, c) == h[i].role = "assistant" /\ c \in h[i].calls

\* The calls answered at the very start of the window.
Leading(h) ==
    UNION {h[i].calls : i \in {k \in First(h)..Len(h) :
                                   \A n \in First(h)..k : h[n].role = "tool"}}

\* Wrong: only the message before the window is looked at.
PrependNearest(h) ==
    {i \in 1..First(h) - 1 : i = First(h) - 1 /\ \E c \in Leading(h) : Announces(h, i, c)}

\* Their announcements, taken from before the window.
Prepended(h) ==
    {i \in 1..First(h) - 1 : \E c \in Leading(h) :
        /\ Announces(h, i, c)
        /\ \A k \in i + 1..First(h) - 1 : ~Announces(h, k, c)}

Shown(h) == Prepended(h) \cup First(h)..Len(h)
CallsOf(h, positions, role) ==
    UNION {h[i].calls : i \in {k \in positions : h[k].role = role}}

\* The calls for which an error is made up.
Invented(h) ==
    LET shown == Shown(h) IN CallsOf(h, shown, "assistant") \ CallsOf(h, shown, "tool")

\* An answer without its call is left out.
Prompt(h) ==
    LET shown == Shown(h)
        asked == CallsOf(h, shown, "assistant")
    IN {i \in shown : h[i].role = "tool" => h[i].calls \subseteq asked}

-----------------------------------------------------------------------------
(***************************************************************************)
(* A message of the user, and the first LLM turn.                          *)
(***************************************************************************)

Send(j) ==
    /\ j \in Streamed \cup Plain
    /\ Goes(j, "idle", "queued")
    /\ UNCHANGED <<history, approval, round, decides, record, faults>>

SaveUser(j) ==
    /\ j \notin Approver
    /\ Goes(j, "queued", "asking")
    /\ Save(User)
    /\ UNCHANGED <<approval, round, decides, record, faults>>

\* The LLM answers, or a hook blocks the message.
ReplyText(j) ==
    /\ Goes(j, "asking", "over")
    /\ Save(Assistant({}))
    /\ UNCHANGED <<approval, round, decides, record, faults>>

\* An assumption: the provider gives every call an id of its own.  (For one that
\* gives none the code makes up call_<idx> or toolu_<idx>, the same in every reply.)
Fresh(S) ==
    /\ \A i \in DOMAIN history : history[i].calls \cap S = {}
    /\ \A j \in Job : calls[j] \cap S = {}

\* send_message refuses calls that need approval and saves nothing.
ReplyCalls(j, S) ==
    /\ at[j] = "asking"
    /\ S # {} /\ Fresh(S)
    /\ IF j \in Streamed
       THEN Goes(j, "asking", "replied") /\ Save(Assistant(S))
       ELSE /\ Goes(j, "asking", IF S \cap NeedsApproval = {} THEN "handle" ELSE "over")
            /\ UNCHANGED history
    /\ calls' = [calls EXCEPT ![j] = S]
    /\ UNCHANGED <<approval, todo, depth, decides, record, faults>>

\* check_approval_requirements: the turn ends with rows to approve, or its
\* tools are run.
CheckApproval(j, from) ==
    /\ approval' = [c \in Call |-> IF c \in calls[j] \cap NeedsApproval
                                   THEN "pending" ELSE approval[c]]
    /\ Goes(j, from, IF calls[j] \cap NeedsApproval = {} THEN "handle" ELSE "over")

CheckReply(j) ==
    /\ CheckApproval(j, "replied")
    /\ UNCHANGED <<history, round, decides, record, faults>>

-----------------------------------------------------------------------------
(***************************************************************************)
(* _handle_tool_calls.                                                     *)
(***************************************************************************)

\* Is the announcement of the calls among the latest messages with calls?
Announced(S) ==
    LET withCalls == {i \in DOMAIN history :
                          history[i].role = "assistant" /\ history[i].calls # {}}
    IN \E i \in withCalls :
           /\ history[i].calls \cap S # {}
           /\ Cardinality({k \in withCalls : k > i}) < Recent

StartTools(j) ==
    /\ Goes(j, "handle", "tools")
    /\ IF Announced(calls[j]) THEN UNCHANGED history ELSE Save(Assistant(calls[j]))
    /\ todo' = [todo EXCEPT ![j] = calls[j]]
    /\ ran' = ran \cup (calls[j] \ Sequential)
    /\ handled' = [c \in Call |-> IF c \in calls[j] THEN handled[c] + 1 ELSE handled[c]]
    /\ UNCHANGED <<approval, calls, depth, decides, granted, faults>>

\* Tools that run in parallel end in any order, with a result or an error.
ToolEnds(j, c) ==
    /\ at[j] = "tools"
    /\ c \in todo[j] \ Sequential
    /\ todo' = [todo EXCEPT ![j] = @ \ {c}]
    /\ Save(Answer(c))
    /\ UNCHANGED <<approval, at, calls, depth, decides, record, faults>>

Orders(S) == {s \in [1..Cardinality(S) -> S] : {s[i] : i \in 1..Cardinality(S)} = S}

\* Wrong: the tools that time out leave no message.
TimeOutSilently(j) ==
    /\ at[j] = "tools"
    /\ todo[j] \ Sequential # {}
    /\ todo' = [todo EXCEPT ![j] = @ \cap Sequential]
    /\ UNCHANGED <<history, approval, at, calls, depth, decides, record, faults>>

\* The time of the round is over: every tool that still runs is answered.
ToolsTimeOut(j) ==
    /\ at[j] = "tools"
    /\ todo[j] \ Sequential # {}
    /\ todo' = [todo EXCEPT ![j] = @ \cap Sequential]
    /\ \E s \in Orders(todo[j] \ Sequential) :
           history' = history \o [i \in DOMAIN s |-> Answer(s[i])]
    /\ UNCHANGED <<approval, at, calls, depth, decides, record, faults>>

RunSequential(j, c) ==
    /\ at[j] = "tools"
    /\ c \in todo[j] /\ todo[j] \subseteq Sequential
    /\ todo' = [todo EXCEPT ![j] = @ \ {c}]
    /\ ran' = ran \cup {c}
    /\ Save(Answer(c))
    /\ UNCHANGED <<approval, at, calls, depth, decides, granted, handled, faults>>

ToolsDone(j) ==
    /\ Goes(j, "tools", "follow")
    /\ todo[j] = {}
    /\ UNCHANGED <<history, approval, round, decides, record, faults>>

-----------------------------------------------------------------------------
(***************************************************************************)
(* _stream_followup_after_tools.                                           *)
(***************************************************************************)

\* A reply without content leaves no message.
FollowText(j) ==
    /\ Goes(j, "follow", "over")
    /\ Save(Assistant({})) \/ UNCHANGED history
    /\ UNCHANGED <<approval, round, decides, record, faults>>

\* S may be empty: corrupted calls are dropped, and the round goes on.
FollowCalls(j, S) ==
    /\ Goes(j, "follow", "followed")
    /\ Fresh(S)
    /\ Save(Assistant(S))
    /\ calls' = [calls EXCEPT ![j] = S]
    /\ UNCHANGED <<approval, todo, depth, decides, record, faults>>

\* Wrong: a later round is not checked for approvals.
NextRoundUnchecked(j) ==
    /\ Goes(j, "followed", "handle")
    /\ depth' = [depth EXCEPT ![j] = @ + 1]
    /\ depth[j] < MaxIterations
    /\ UNCHANGED <<history, approval, calls, todo, decides, record, faults>>

NextRound(j) ==
    /\ depth[j] < MaxIterations
    /\ CheckApproval(j, "followed")
    /\ depth' = [depth EXCEPT ![j] = @ + 1]
    /\ UNCHANGED <<history, calls, todo, decides, record, faults>>

IterationLimit(j) ==
    /\ depth[j] >= MaxIterations
    /\ Goes(j, "followed", "over")
    /\ UNCHANGED <<history, approval, round, decides, record, faults>>

-----------------------------------------------------------------------------
(***************************************************************************)
(* Approvals: approve_tool_call and execute_agent_resume_job.              *)
(***************************************************************************)

\* The calls that were announced together with c.
Together(c) ==
    UNION {history[i].calls : i \in {k \in DOMAIN history : Announces(history, k, c)}}

ApproveRead(r, c) ==
    /\ r \in Approver
    /\ Goes(r, "idle", "read")
    /\ approval[c] = "pending"
    /\ \E yes \in BOOLEAN : decides' = [decides EXCEPT ![r] = [of |-> {c}, yes |-> yes]]
    /\ UNCHANGED <<history, approval, round, record, faults>>

ApproveCommit(r) ==
    /\ Goes(r, "read", "decided")
    /\ LET d == decides[r] IN
       /\ approval' = [c \in Call |-> IF c \notin d.of THEN approval[c]
                                      ELSE IF d.yes THEN "approved" ELSE "rejected"]
       /\ granted' = IF d.yes THEN granted \cup d.of ELSE granted
    /\ UNCHANGED <<history, round, decides, ran, handled, faults>>

\* The job is enqueued after the commit, and is lost when that fails.
ApproveEnqueue(r) ==
    /\ \/ Goes(r, "decided", "queued") /\ UNCHANGED faults
       \/ Goes(r, "decided", "over") /\ Fault
    /\ UNCHANGED <<history, approval, round, decides, record>>

\* The job of an approval runs all the calls of the reply it belongs to; the
\* job of a rejection only tells the client.
Resume(r) ==
    /\ r \in Approver
    /\ Goes(r, "queued", IF decides[r].yes THEN "handle" ELSE "over")
    /\ calls' = [calls EXCEPT ![r] =
           UNION {Together(c) : c \in decides[r].of}]
    /\ UNCHANGED <<history, approval, todo, depth, decides, record, faults>>

-----------------------------------------------------------------------------
(***************************************************************************)
(* Failures.                                                               *)
(***************************************************************************)

Running(j) == at[j] \in {"asking", "replied", "handle", "tools", "follow", "followed"}

\* An exception: send_message_stream saves it as an answer.
Fail(j) ==
    /\ Fault
    /\ Running(j)
    /\ at' = [at EXCEPT ![j] = "over"]
    /\ IF j \in Streamed THEN Save(Assistant({})) ELSE UNCHANGED history
    /\ UNCHANGED <<approval, round, decides, record>>

\* The client disconnects, a timeout strikes or the process dies.  What was
\* streamed inline may be saved; a job has one try (max_tries).
Interrupt(j) ==
    /\ Fault
    /\ Running(j)
    /\ at' = [at EXCEPT ![j] = "over"]
    /\ (j \in Streamed /\ Save(Assistant({}))) \/ UNCHANGED history
    /\ UNCHANGED <<approval, round, decides, record>>

-----------------------------------------------------------------------------

FirstTurn(j) ==
    \/ Send(j) \/ SaveUser(j) \/ ReplyText(j) \/ CheckReply(j)
    \/ \E S \in SUBSET Call : ReplyCalls(j, S)

ToolRound(j) ==
    \/ StartTools(j) \/ ToolsTimeOut(j) \/ ToolsDone(j)
    \/ \E c \in Call : ToolEnds(j, c) \/ RunSequential(j, c)

FollowUp(j) ==
    \/ FollowText(j) \/ NextRound(j) \/ IterationLimit(j)
    \/ \E S \in SUBSET Call : FollowCalls(j, S)

Approve(r) ==
    \/ \E c \in Call : ApproveRead(r, c)
    \/ ApproveCommit(r) \/ ApproveEnqueue(r) \/ Resume(r)

Next ==
    \/ \E j \in Job : FirstTurn(j) \/ ToolRound(j) \/ FollowUp(j) \/ Fail(j) \/ Interrupt(j)
    \/ \E r \in Approver : Approve(r)

Spec == Init /\ [][Next]_vars

-----------------------------------------------------------------------------
(***************************************************************************)
(* Properties.                                                             *)
(***************************************************************************)

AnnouncedOnce(c) ==
    \A i, k \in DOMAIN history : Announces(history, i, c) /\ Announces(history, k, c) => i = k

AnswerAt(k, c) == k \in DOMAIN history /\ history[k] = Answer(c)
ShownAfterCall(c, k) == \E i \in Prompt(history) : Announces(history, i, c) /\ i < k

\* Whatever the chat went through, the LLM is shown no answer ahead of its
\* call.  A follow-up turn is given the whole history.  A first turn is given a
\* window of it, and however the window cuts the rounds, the answers it begins
\* with are kept and their calls are put before them; of a call that was
\* announced once, the other answers it shows come after the call too, and it is
\* said to be interrupted although it was answered only when the call was put
\* before the window.  (Not claimed: that an answer follows its call directly,
\* or that it is the only one.)
AnswersFollowCalls ==
    /\ \A c \in Call, k \in DOMAIN history :
           AnswerAt(k, c) => \E i \in 1..k - 1 : Announces(history, i, c)
    /\ \A c \in Leading(history) :
           \E k \in Prompt(history) : AnswerAt(k, c) /\ ShownAfterCall(c, k)
    /\ \A c \in Call, k \in Prompt(history) :
           AnnouncedOnce(c) /\ AnswerAt(k, c) => ShownAfterCall(c, k)
    /\ \A c \in Invented(history), k \in DOMAIN history :
           AnnouncedOnce(c) /\ AnswerAt(k, c) =>
               \E i \in Prepended(history) : Announces(history, i, c)

\* While a reply has a call that needs approval, none of its tools is started
\* before the user has approved one of them.
NothingRunsUnasked ==
    \A c \in ran : Together(c) \cap NeedsApproval # {} => Together(c) \cap granted # {}

Answers(c) == Cardinality({i \in DOMAIN history : history[i] = Answer(c)})

\* The LLM is asked to go on only when every call of the round is answered,
\* and a call is answered once in each round it is in, however its tool ended.
AnsweredPerRound ==
    /\ \A j \in Job : at[j] = "follow" => \A c \in calls[j] : Answers(c) > 0
    /\ \A c \in Call : Answers(c) <= handled[c]

=============================================================================
