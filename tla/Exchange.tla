------------------------------ MODULE Exchange ------------------------------
(***************************************************************************)
(* What the clients' screens have in common: the calls a screen has sent   *)
(* and the server has not executed, and the answers on their way back.     *)
(* Nothing orders two calls that are under way together, and a call or its *)
(* answer may be lost.                                                     *)
(***************************************************************************)
EXTENDS Integers, Sequences, FiniteSets, SequencesExt

CONSTANTS MaxCalls,  \* bound: calls under way when the user goes on
          MaxLost    \* bound: calls or answers that are lost

ASSUME ExchangeAssumption == {MaxCalls, MaxLost} \subseteq Nat

VARIABLES client,    \* "web" or "mobile", never changes
          screen,    \* the component a behaviour follows, never changes
          sent,      \* calls the server has not executed
          answers,   \* answers on their way
          lost       \* calls and answers lost so far

exchange == <<sent, answers, lost>>

Web == client = "web"
Mobile == client = "mobile"

Calls == Range(sent) \cup {answers[i].call : i \in DOMAIN answers}
UnderWay(ops) == \E c \in Calls : c.op \in ops
Bounded == Len(sent) + Len(answers) < MaxCalls
Quiet == sent = <<>> /\ answers = <<>>

Send(calls) == sent' = sent \o calls /\ UNCHANGED <<answers, lost>>
Executed(i, a) == sent' = RemoveAt(sent, i) /\ answers' = Append(answers, a) /\ UNCHANGED lost
Received(i) == answers' = RemoveAt(answers, i) /\ UNCHANGED <<sent, lost>>

(* An answer has come and its handler goes on with further calls.          *)
Continued(i, calls) ==
  answers' = RemoveAt(answers, i) /\ sent' = sent \o calls /\ UNCHANGED lost

Lose == lost < MaxLost /\ lost' = lost + 1
LoseCall(i, calls) == Lose /\ sent' = RemoveAt(sent, i) \o calls /\ UNCHANGED answers
LoseAnswer(i, calls) == Lose /\ answers' = RemoveAt(answers, i) /\ sent' = sent \o calls
=============================================================================
