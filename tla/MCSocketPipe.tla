---------------------------- MODULE MCSocketPipe ----------------------------
(* The socket pipe on small instances, and the hash that its two ends      *)
(* fingerprint packets and blocks with.                                    *)
EXTENDS SocketPipe, HashFunc

(* A packet of one block and one of two.                                   *)
OneAndTwo == <<1, 2>>

(* What the buffer of packet p holds, and some bytes behind it.            *)
Content == <<[i \in 1 .. 32 |-> (37 * i + 11) % 256], [i \in 1 .. 32 |-> 255]>>
Contents == {Content[p] : p \in DOMAIN Content}

(* The ends of a pipe agree on the fingerprint of every packet that is     *)
(* sent and of each block of it, although their buffers lie at addresses   *)
(* of their own, next to other data, on machines of either byte order      *)
(* (frl_hash_func.c reads the key in three ways): hashing is a function of *)
(* the key, as SocketPipe assumes of Digest.  The variants of the function *)
(* agree as the comments at frl_hash_func.c:166-171, 212-214 and 463-470   *)
(* say: words hash as their bytes, and two seeds of 0 as one.              *)
SameFingerprint == \A p \in submitted : KeyOnly[Content[p]] /\ Agreement[Content[p]]

=============================================================================
