----------------------------- MODULE MCActorSystem -----------------------------
(* Instances of ActorSystem for TLC. *)
EXTENDS ActorSystem, TLC

CONSTANTS front, back, m1, m2, m3, m4, m5

(* Three requests to front; two of their handlers send on to back, and may *)
(* do so at the same time, as two workers can drain front at once.         *)
PingTarget == (m1 :> front) @@ (m2 :> front) @@ (m5 :> front)
              @@ (m3 :> back) @@ (m4 :> back)
PingReplies == [m \in Message |->
                  CASE m = m1 -> {m3} [] m = m2 -> {m4} [] OTHER -> {}]

=============================================================================
