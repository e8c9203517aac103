---------------------------- MODULE MCClassifier ----------------------------
(* Instances of Classifier for TLC. *)
EXTENDS Classifier

CONSTANTS x, y

\* Every key, decodable or not; claims of two bounties, with payouts that
\* add up beyond U128Max or do not parse.
MCEvents ==
  {[key |-> k, ok |-> o, id |-> x, payout |-> 0] :
     k \in Keys \ {"BountyClaimed"}, o \in BOOLEAN}
  \cup [key : {"BountyClaimed"}, ok : {TRUE}, id : {x, y},
        payout : {0, 2, 3, Unparsable}]
  \cup {[key |-> "BountyClaimed", ok |-> FALSE, id |-> x, payout |-> 2]}

MCIds == {x, y}

\* Bytes are few and fields narrow: one byte stands for four of the length
\* and for eight of the numbers of the tail.  The length of some of the
\* bodies is a possible first byte of a signature, and a call may begin with
\* what looks like a tag.
MCChainId == <<2>>

MCSigned ==
  [wrapped : BOOLEAN,
   sig     : {<<0, 0>>, <<1, 0>>, <<10, 0>>, <<10, 1>>},
   pubkey  : {<<1, 2>>, <<0, 1>>},
   call    : {<<>>, <<0>>, <<0, 1>>, <<1, 0>>},
   uniq    : {0, 1},
   nonce   : {<<0>>, <<1>>, <<3>>},
   prio    : {<<0>>, <<1>>},
   fee     : {<<0, 0>>, <<1, 0>>, <<2, 1>>},
   gas     : {<<>>, <<0, 0>>, <<1, 0>>, <<0, 1>>},
   chain   : {<<2>>, <<1>>}]
=============================================================================
