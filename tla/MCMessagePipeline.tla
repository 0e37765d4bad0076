------------------------ MODULE MCMessagePipeline ------------------------
(* Small instances of MessagePipeline for TLC.  The configurations choose  *)
(* the sets; who lives where and which channel a message uses is fixed     *)
(* here by name.                                                           *)
EXTENDS MessagePipeline, TLC

CONSTANTS w1, w2, e1, e2,    \* messages: two for WhatsApp, two e-mails
          pw1, pw2, pe1,     \* processors: WhatsApp on two hosts, e-mail on the first
          k1, k2,            \* ack handlers
          d1, d2,            \* dead-letter requests
          h1, h2             \* hosts

MCHostOf == [x \in Processors \cup Acks |-> IF x = pw2 THEN h2 ELSE h1]

MCChannelOf == [x \in Messages \cup Processors |->
                  IF x \in {e1, e2, pe1} THEN "email" ELSE "whatsapp"]

Symmetry == Permutations(Acks) \cup Permutations(Admins)
EmailSymmetry == Permutations(Messages) \cup Permutations(Admins)
=============================================================================
