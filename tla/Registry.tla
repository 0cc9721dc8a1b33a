------------------------------ MODULE Registry ------------------------------
(***************************************************************************)
(* What the pool registry of dbmanage promises to those who use it: a slot *)
(* for each connection, and one for each of its databases, that is empty   *)
(* or serves pools made from one version of that connection's own row, a   *)
(* version it really had.  A step concerns one slot; the rest keep serving *)
(* what they served.  Module Pools implements it, however its handlers     *)
(* overlap, are dropped or close what others still use.                    *)
(***************************************************************************)
EXTENDS Naturals

CONSTANTS Conn, Db

VARIABLES
    newest,   \* the newest version of each connection's row
    main,     \* the version each connection's pool serves, 0 if there is none
    sub       \* the same for the pool of each of its databases

vars == <<newest, main, sub>>

Init ==
    /\ newest = [c \in Conn |-> 0]
    /\ main = [c \in Conn |-> 0]
    /\ sub = [k \in Conn \X Db |-> 0]

(* A connection is saved: no slot changes by that. *)
Save(c) ==
    /\ newest' = [newest EXCEPT ![c] = @ + 1]
    /\ UNCHANGED <<main, sub>>

(* A slot comes to serve any version the row has had, the last included. *)
Publish(c) ==
    /\ \E v \in 1 .. newest[c] : main' = [main EXCEPT ![c] = v]
    /\ UNCHANGED <<newest, sub>>

PublishSub(k) ==
    /\ \E v \in 1 .. newest[k[1]] : sub' = [sub EXCEPT ![k] = v]
    /\ UNCHANGED <<newest, main>>

Evict(c) ==
    /\ main' = [main EXCEPT ![c] = 0]
    /\ UNCHANGED <<newest, sub>>

EvictSub(k) ==
    /\ sub' = [sub EXCEPT ![k] = 0]
    /\ UNCHANGED <<newest, main>>

(* The process restarts. *)
Reset ==
    /\ main' = [c \in Conn |-> 0]
    /\ sub' = [k \in Conn \X Db |-> 0]
    /\ UNCHANGED newest

Next ==
    \/ \E c \in Conn : Save(c) \/ Publish(c) \/ Evict(c)
    \/ \E k \in Conn \X Db : PublishSub(k) \/ EvictSub(k)
    \/ Reset

Spec == Init /\ [][Next]_vars
=============================================================================
