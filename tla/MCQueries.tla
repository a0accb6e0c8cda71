----------------------------- MODULE MCQueries -----------------------------
(***************************************************************************)
(* The queries of a universe with two components for TLC.                   *)
(***************************************************************************)
EXTENDS Queries

CONSTANTS a, b

MCPlans == {Require(<<a, b>>), Include(Require(<<a>>), <<b>>), Exclude(Require(<<a>>), <<b>>),
            Find("find", Table(a), b), Find("findAnti", Table(a), b), Find("findOuter", Table(a), b)}
=============================================================================
