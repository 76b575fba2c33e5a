---------------------------- MODULE MC_JoinerNode ----------------------------
(* Instances of JoinerNode for TLC.  The key pairs are small stand-ins:    *)
(* their fields only need distinct values and mpis of one and two bytes;   *)
(* RN, RP and RQ are NULL, as rsa_gen_key leaves them.  len, the modulus   *)
(* size encrypt and decrypt use, leaves one and three bytes per block.     *)
EXTENDS JoinerNode

K1 == [ver |-> 0, len |-> 12, N |-> 299, E |-> 3, D |-> 179, P |-> 13, Q |-> 23,
       DP |-> 11, DQ |-> 15, QP |-> 16, RN |-> 0, RP |-> 0, RQ |-> 0]
K2 == [K1 EXCEPT !.len = 14, !.N = 391, !.D = 235, !.P = 17, !.DP = 7, !.QP = 9]
MCKeys == {K1}
MCKeys2 == {K1, K2}

(* With the host key pair main loaded, encrypt cuts a plaintext into      *)
(* len-11 byte pieces and emits one len-byte block per piece, and decrypt *)
(* walks the blocks len bytes at a time: decrypt(encrypt(p)) = p for      *)
(* plaintexts of up to seven bytes (exact multiples of the piece, a short *)
(* last piece and the empty text included).                               *)
CryptRoundTrip ==
    phase = "ready" =>
        \A n \in 0..7 :
            LET p == [i \in 1..n |-> i]
            IN  decrypt(encrypt(p, hostKey.len), hostKey.len) = p
=============================================================================
