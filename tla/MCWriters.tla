------------------------------ MODULE MCWriters ------------------------------
(* Two browsers and the clock's goroutine: a collision between a reply and a *)
(* loop of either kind of goroutine, while a third one waits for mu.         *)
EXTENDS Writers

CONSTANTS b1, b2, timer, none

TheBrowsers == {b1, b2}
TheOthers == {timer}
=============================================================================
