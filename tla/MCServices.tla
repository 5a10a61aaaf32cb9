----------------------------- MODULE MCServices -----------------------------
(***************************************************************************)
(* The twelve parts at sizes at which each one's interesting cases happen: *)
(*                                                                         *)
(*  - three requests of the browser: the message of a disconnect, which    *)
(*    the second takes, must not be seen by the third;                     *)
(*  - ticks of five seconds: the default RPC timeout is one, the interval  *)
(*    six; three attempts to verify the node;                              *)
(*  - three Electrum servers: two may agree against the third;             *)
(*  - a gap of two, with used addresses in front of and behind a gap of    *)
(*    one, and pages of two with one, two and three transactions;          *)
(*  - histories of up to five transactions in pages of one to three; one   *)
(*    cap is met on the way, the other by the larger pages;                *)
(*  - the last two of up to four blocks are searched for a transaction;    *)
(*  - three transactions, alone or in families, for three blocks of weight *)
(*    three;                                                               *)
(*  - sixty points, six of them in one downsample and 72 downsamples       *)
(*    become three, two and two;                                           *)
(*  - pages of one and two of up to three transactions with up to three    *)
(*    inputs, two of which are shown; two outputs are of one transaction;  *)
(*  - charts of up to nine points of chains of up to forty blocks.         *)
(***************************************************************************)
EXTENDS Services

CONSTANTS hash1, hash2

MCOutputs == {<<hash1, 0>>, <<hash1, 1>>, <<hash2, 0>>}
=============================================================================
