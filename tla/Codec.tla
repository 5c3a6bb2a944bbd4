------------------------------- MODULE Codec -------------------------------
(***************************************************************************)
(* What proxy/common.rs and proxy/crypto.rs do to the bytes of a frame.    *)
(* Data is the sequence of transformations its bytes have gone through,    *)
(* the last one outermost: <<>> is what the application wrote.  All of a   *)
(* session's operations use one key, so xor undoes itself.                 *)
(***************************************************************************)
EXTENDS Sequences, SequencesExt

Methods == {"None", "Aes128", "Xor"}
Configs == [compressed : BOOLEAN, method : Methods]
Plain == <<>>

(* What an operation that fails returns: an Err, or the panic of the       *)
(* unwrap in decompress_data.                                              *)
Failed == <<"failed">>

Undo(layer, data) ==
  IF data # <<>> /\ Last(data) = layer THEN Front(data) ELSE Failed

compress_data(data) == Append(data, "lz4")
decompress_data(data) == Undo("lz4", data)

xor_encrypt_decrypt(data) ==
  IF data # <<>> /\ Last(data) = "Xor" THEN Front(data) ELSE Append(data, "Xor")

encrypt(method, data) ==
  CASE method = "None"   -> data
    [] method = "Aes128" -> Append(data, "Aes128")
    [] method = "Xor"    -> xor_encrypt_decrypt(data)

decrypt(method, data) ==
  CASE method = "None"   -> data
    [] method = "Aes128" -> Undo("Aes128", data)
    [] method = "Xor"    -> xor_encrypt_decrypt(data)

(* The transformation of encode_data_and_limiting; the limiting is with    *)
(* the sessions that wait.                                                 *)
encode_data(c, data) ==
  encrypt(c.method, IF c.compressed THEN compress_data(data) ELSE data)

(* Mutant: decompression before decryption.                                *)
decode_dataEarly(c, data) ==
  LET plain == IF c.compressed THEN decompress_data(data) ELSE data
  IN  IF plain = Failed THEN Failed ELSE decrypt(c.method, plain)

decode_data(c, data) ==
  LET plain == decrypt(c.method, data)
  IN  IF plain = Failed \/ ~ c.compressed THEN plain ELSE decompress_data(plain)
=============================================================================
