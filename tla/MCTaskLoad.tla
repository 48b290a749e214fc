------------------------------ MODULE MCTaskLoad ------------------------------
EXTENDS TaskLoad

\* Two tasks of one category, one that takes the default (None) and one that
\* asks for the default by name: three categories, one of them shared twice.
Fanouts == [t \in Task |-> CASE t = "a" -> 1 [] t = "b" -> 1
                             [] t = "c" -> 2 [] t = "d" -> 0 [] t = "e" -> 3]
===============================================================================
