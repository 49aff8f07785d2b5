------------------------------ MODULE MCServing ------------------------------
(* Instances of Serving for TLC.                                            *)
EXTENDS Serving

CONSTANTS g1, g2, u1

TwoFromLoop == {g1, g2}
OneFromThread == {u1}
Nobody == {}

Plan(backend, come, workers, names, kills, resets) ==
    [backend |-> backend, come |-> come, workers |-> workers, names |-> names,
     kills |-> kills, resets |-> resets]

(* Generated load and a kill; a generated and a posted request and a kill; a   *)
(* reset over a scale-up; a reset over two requests; real-model workers.       *)
Mixed == {Plan("openai", {g1, g2}, 2, 2, 1, 0), Plan("openai", {g1, u1}, 1, 1, 1, 0),
          Plan("openai", {g1}, 1, 1, 0, 1), Plan("openai", {g1, u1}, 1, 0, 0, 1),
          Plan("realmodel", {g1, g2}, 2, 1, 0, 0), Plan("realmodel", {g1, u1}, 1, 1, 1, 0)}

OnePosted == {Plan("openai", {u1}, 2, 2, 0, 0)}
===============================================================================
