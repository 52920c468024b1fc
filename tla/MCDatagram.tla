----------------------------- MODULE MCDatagram -----------------------------
(* Small requests and payloads for Datagram.                               *)
EXTENDS DatagramInvariant

(* Carries between the two words of a number, and none.                    *)
MCSeqs == {3, 4}

(* A header alone, an odd and an even payload, zeros and ones.             *)
MCPayloads == {<<>>, <<3>>, <<0, 2>>}

(* Requests that fit the block size they ask for exactly, that miss it by  *)
(* the 0 after the name, and by nearly everything; and two that fit it but *)
(* are too long for main, which cuts off the 0, or a letter too.           *)
MCInitArgs ==
  {[buffsize |-> 6, window_size |-> 6, name |-> <<2>>],
   [buffsize |-> 6, window_size |-> 1, name |-> <<1, 3>>],
   [buffsize |-> 1, window_size |-> 4, name |-> <<2>>],
   [buffsize |-> 9, window_size |-> 1, name |-> <<1, 3, 2>>],
   [buffsize |-> 9, window_size |-> 7, name |-> <<1, 3, 2, 1>>]}

(* Memory that is all zeros, and memory that is all ones.                  *)
MCMemories == {[i \in 1 .. HDR_LEN + Extent |-> junk] : junk \in {0, Ones}}
=============================================================================
