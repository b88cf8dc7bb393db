--------------------------- MODULE MCServiceGuard ---------------------------
(* Instances of ServiceGuard: Windows Audio with a vendor helper that depends *)
(* on it, a second helper that depends on the first, and one of its own.      *)
EXTENDS ServiceGuard

CONSTANTS helper, panel, remote

Chain == [s \in {Audio, helper, panel, remote} |->
            CASE s = Audio -> {}
              [] s = panel -> {helper}
              [] OTHER -> {Audio}]
=============================================================================
