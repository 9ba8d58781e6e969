--------------------------- MODULE MCRemoteShell ---------------------------
(* Sessions of RemoteShell for TLC: each is large in one respect. *)
EXTENDS RemoteShell

Session(flag, typed, made, ids, drawn, answered, lossy) ==
  [flag |-> flag, typed |-> typed, made |-> made, ids |-> ids,
   blocks |-> [e \in End |-> IF e = "server" THEN drawn ELSE answered], lossy |-> lossy]

TypingAndOutput == Session("off", 4, 3, 0, 0, 0, TRUE)
TypingUnderX11 == Session("auto", 3, 2, 0, 0, 0, TRUE)
TypedChannel == Session("on", 1, 0, 1, 1, 0, TRUE)
ShowingChannel == Session("on", 0, 1, 1, 1, 1, TRUE)
LongDrawing == Session("on", 0, 0, 1, 3, 1, FALSE)
LongAnswers == Session("on", 0, 0, 1, 1, 3, FALSE)
TwoChannels == Session("on", 0, 0, 2, 1, 0, FALSE)

All == {TypingAndOutput, TypingUnderX11, TypedChannel, ShowingChannel, LongDrawing,
        LongAnswers, TwoChannels}
=============================================================================
