--------------------------- MODULE MCGMHandshake ---------------------------
EXTENDS GMHandshake

(* A first connection, and the configurations that differ from it.         *)
Plain == [ticket |-> FALSE, early |-> FALSE, saved |-> FALSE, tek |-> "current",
          admitsEarly |-> FALSE, paramsValid |-> TRUE, alpn |-> TRUE, trusted |-> TRUE,
          retry |-> FALSE, shared |-> FALSE]

FirstConfigs == {Plain, [Plain EXCEPT !.tek = "none"], [Plain EXCEPT !.alpn = FALSE],
                 [Plain EXCEPT !.trusted = FALSE], [Plain EXCEPT !.retry = TRUE]}

ResumeConfigs == {[Plain EXCEPT !.ticket = TRUE, !.tek = t, !.retry = r, !.trusted = v] :
                    t \in {"none", "rotated", "current"}, r \in BOOLEAN, v \in BOOLEAN}

EarlyConfigs == {c \in [ticket : {TRUE}, early : {TRUE}, saved : BOOLEAN,
                        tek : {"rotated", "current"}, admitsEarly : BOOLEAN,
                        paramsValid : BOOLEAN, alpn : {TRUE}, trusted : {TRUE},
                        retry : BOOLEAN, shared : {FALSE}] :
                   c.tek = "rotated" \/ c.retry => c.admitsEarly /\ c.paramsValid}

SharedConfigs == {[Plain EXCEPT !.ticket = TRUE, !.shared = TRUE]}

(* The runs on liveness, and on single configurations.                     *)
LiveConfigs == {Plain, [Plain EXCEPT !.retry = TRUE]} \cup
               {[Plain EXCEPT !.ticket = TRUE, !.tek = t, !.retry = r] :
                  t \in {"rotated", "current"}, r \in BOOLEAN}
OnlyEarly == {[Plain EXCEPT !.ticket = TRUE, !.early = TRUE, !.saved = TRUE,
                            !.admitsEarly = TRUE, !.tek = "rotated"]}

AllConfigs == FirstConfigs \cup ResumeConfigs \cup EarlyConfigs \cup SharedConfigs
=============================================================================
