----------------------------- MODULE BlockStore ------------------------------
(***************************************************************************)
(* What the buffer cache promises to the log and the file system: a block  *)
(* is used by one process at a time, which finds there what was last left  *)
(* in it, and what it writes through is on the disk.  Bcache implements it. *)
(***************************************************************************)
CONSTANTS Block, Proc, Nobody, Content, Blank

VARIABLES
  content,   \* what a process that holds the block sees
  stable,    \* what the disk holds
  holder

store == <<content, stable, holder>>

Init ==
  /\ stable = [k \in Block |-> Blank]
  /\ content = stable
  /\ holder = [k \in Block |-> Nobody]

Take(p, k) ==
  /\ holder[k] = Nobody
  /\ holder' = [holder EXCEPT ![k] = p]
  /\ UNCHANGED <<content, stable>>

Update(p, k, v) ==
  /\ holder[k] = p
  /\ content' = [content EXCEPT ![k] = v]
  /\ UNCHANGED <<stable, holder>>

WriteThrough(p, k) ==
  /\ holder[k] = p
  /\ stable' = [stable EXCEPT ![k] = content[k]]
  /\ UNCHANGED <<content, holder>>

Drop(p, k) ==
  /\ holder[k] = p
  /\ holder' = [holder EXCEPT ![k] = Nobody]
  /\ UNCHANGED <<content, stable>>

Next == \E p \in Proc, k \in Block :
  \/ Take(p, k) \/ Drop(p, k) \/ WriteThrough(p, k)
  \/ \E v \in Content : Update(p, k, v)

Spec == Init /\ [][Next]_store
=============================================================================
