----------------------------------- MODULE Aes -----------------------------------
(***************************************************************************)
(* AES256_ECB of rng.c over the cipher of tiny_aes, a free constructor: two *)
(* blocks are equal when they were made of the same block by the same key. *)
(***************************************************************************)
Encrypt(key, block) == <<"aes", key, block>>

(* AES256_ECB does not look at ctr: it encrypts the buffer in its place. *)
Aes256Ecb(key, ctr, buffer) == Encrypt(key, buffer)
===============================================================================
