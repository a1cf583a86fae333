---------------------------- MODULE MCAssistant ----------------------------
(* An instance of Assistant for TLC: two ordinary tokens and one that ends  *)
(* a generation, and a target model that ends some of them.                *)
EXTENDS Assistant

CONSTANTS a, b, e

Weight(t) == CASE t = a -> 1 [] t = b -> 2 [] t = e -> 3
Sum(h) == FoldLeft(LAMBDA n, t : 2 * n + Weight(t), 0, h)

\* The model's choice: every token follows some history.
MCPredict(h) == CASE Sum(h) % 5 \in {0, 3} -> a
                  [] Sum(h) % 5 \in {1, 4} -> b
                  [] OTHER -> e
MCPrompts == {<<a>>, <<a, a>>, <<b, a>>} \cup [1 .. 3 -> {a, b}]
                \cup {<<b, a, a, b>>, <<b, b, a, b>>, <<b, b, a, a>>}
=============================================================================
