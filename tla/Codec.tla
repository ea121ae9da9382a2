------------------------------- MODULE Codec -------------------------------
(***************************************************************************)
(* The payload codec of codec-demo (codec/aesgcm.go) and the codec server  *)
(* in front of it (cmd/codec-server/main.go).                              *)
(*                                                                         *)
(* A payload is its data under seals, the outermost first: the encoding    *)
(* "binary/encrypted" with the key that opens it, or with none that does   *)
(* (another key, a ciphertext shorter than its nonce, bytes that are no    *)
(* payload). Nonces and ciphertexts are not told apart.                    *)
(***************************************************************************)
EXTENDS Naturals, Sequences

CONSTANTS
    Key,      \* CODEC_AES_KEY, the same in the worker and the codec server
    Foreign,  \* a seal that key does not open
    Data      \* what payloads are about

ASSUME SealsDistinct == Key # Foreign

Payloads == [seals: Seq({Key, Foreign}), data: Data]

Plain(d) == [seals |-> <<>>, data |-> d]

Marked(p) == p.seals # <<>>

Seal(p) == [p EXCEPT !.seals = <<Key>> \o @]

Opens(p) == Marked(p) => Head(p.seals) = Key

Open(p) == IF Marked(p) THEN [p EXCEPT !.seals = Tail(@)] ELSE p

-----------------------------------------------------------------------------
(* Encode and Decode transform a batch, wholly or not at all.              *)

Error == [ok |-> FALSE, payloads |-> <<>>]

Batch(ps) == [ok |-> TRUE, payloads |-> ps]

Encode(ps) == Batch([i \in DOMAIN ps |-> Seal(ps[i])])

(* Mutant: what is not encrypted cannot be decrypted.                      *)
DecodeMarkedOnly(ps) ==
    IF \A i \in DOMAIN ps: Marked(ps[i]) /\ Opens(ps[i])
    THEN Batch([i \in DOMAIN ps |-> Open(ps[i])]) ELSE Error

Decode(ps) ==
    IF \A i \in DOMAIN ps: Opens(ps[i])
    THEN Batch([i \in DOMAIN ps |-> Open(ps[i])]) ELSE Error

-----------------------------------------------------------------------------
(* The codec server: withCORS around payloadsHandler, of which result is   *)
(* what the transform makes of the payloads in the body, if they parse.    *)

Reply(status, ps) == [status |-> status, payloads |-> ps]

Serve(method, parses, result) ==
    CASE method = "OPTIONS" -> Reply(200, <<>>)
      [] method \notin {"OPTIONS", "POST"} -> Reply(405, <<>>)
      [] method = "POST" /\ ~parses -> Reply(400, <<>>)
      [] method = "POST" /\ parses /\ ~result.ok -> Reply(500, <<>>)
      [] OTHER -> Reply(200, result.payloads)

(* The Web UI is of another origin: its browser asks first, then posts.    *)
Browse(ps) ==
    IF Serve("OPTIONS", TRUE, Error).status = 200
    THEN Serve("POST", TRUE, Decode(ps)) ELSE Reply(0, <<>>)
=============================================================================
