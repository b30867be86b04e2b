----------------------------- MODULE MCAgentTurn -----------------------------
(***************************************************************************)
(* Instances of AgentTurn for TLC.                                         *)
(***************************************************************************)
EXTENDS AgentTurn

CONSTANTS w1, w2

TheKinds == [i \in {"u1", "u2", "c1", "r1"} |->
               CASE i \in {"u1", "u2"} -> "user" [] i = "c1" -> "continuation"
                 [] i = "r1" -> "resume"]
S(arrive, replies, edits, faults, watched) ==
  [arrive |-> arrive, replies |-> replies, edits |-> edits, faults |-> faults,
   watched |-> watched]

\* One user's turn with every tool, first watched, then over a storyboard that
\* changes; an interrupt and its answer; users that queue up behind each other
\* and behind an answer; a continuation, alone and between users' turns.
TheSessions == {
  S({"u1"}, {"media", "ask", "say"}, 0, 2, TRUE),
  S({"u1"}, {"media", "film", "say"}, 1, 1, FALSE),
  S({"u1", "r1"}, {"ask"}, 0, 2, FALSE),
  S({"u1", "u2", "r1"}, {"media", "ask", "say"}, 0, 0, FALSE),
  S({"u1", "u2"}, {"film"}, 0, 1, FALSE),
  S({"u1", "c1"}, {"media", "say"}, 0, 1, FALSE),
  S({"c1"}, {"film", "say"}, 1, 1, FALSE)}

\* One turn that interrupts, and one fault.
AskingSession == {S({"u1"}, {"ask"}, 0, 1, FALSE)}
==============================================================================
