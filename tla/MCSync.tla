-------------------------------- MODULE MCSync --------------------------------
(* Small instances of ConfigSync.                                          *)
EXTENDS ConfigSync, TLC

CONSTANTS v1, v2, global, a, b, g1, g2, a1, a2, b0, p1, p2, p3, w1, w2, c1, h1, h2

\* The second version changes a domain and adds another.
TwoVersions ==
    (v1 :> (global :> g1 @@ a :> a1 @@ b :> None) @@
     v2 :> (global :> g2 @@ a :> a2 @@ b :> b0))
Lists == [c \in Contents |-> CASE c = g1 -> {a} [] c = g2 -> {a, b} [] OTHER -> {}]
\* What each pusher pushes, and where each JVM has its configuration.
Push == (p1 :> v1 @@ p2 :> v2 @@ p3 :> v2)
Places == [j \in Jvms |-> IF j = w2 THEN h2 ELSE h1]

Crew(p, j, v, n) == [pushers |-> p, jvms |-> j, pushed |-> v, aborts |-> n]

\* Pushes of the same content, one worker that breaks off again and again,
\* two hosts, and a command on a host with a worker.
Crews == {Crew({p1, p2, p3}, {}, None, 2), Crew({p2}, {w1}, v1, 3),
          Crew({p2}, {w1, w2}, v1, 1), Crew({p2}, {w1, c1}, v1, 1)}
Alone == {Crew({p2}, {w1}, v1, 0)}

GlobalLast == <<a, b, global>>
GlobalFirst == <<global, a, b>>
==============================================================================
