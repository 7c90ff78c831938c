------------------------------ MODULE MCFetcher -----------------------------
(***************************************************************************)
(* Instances of Fetcher for TLC.                                           *)
(***************************************************************************)
EXTENDS Fetcher

MCStarts == {Pos(Begin, 0)}
MCSeeks == {Pos(End, 0), Pos(1, 1)}
MCOneSeek == {Pos(1, 1)}
=============================================================================
