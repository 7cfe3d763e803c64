----------------------------- MODULE MCMailbox -----------------------------
(* Small inboxes: three messages, one of them a request to shut down or one *)
(* of the lead.                                                            *)
EXTENDS Mailbox

CONSTANTS m1, m2, m3, r1, r2

Senders == (m1 :> "peer" @@ m2 :> "peer" @@ m3 :> "lead")

Readings(k1, k2) == (r1 :> k1 @@ r2 :> k2)
Every ==
  [kind : {Readings("teammate", "off")}, exists : {TRUE}, shutdown : {{}, {m3}},
   cast : {{m1, m2, m3}}]
  \cup [kind : {Readings("teammate", "off"), Readings("print", "off"), Readings("poll", "poll")},
        exists : BOOLEAN, shutdown : {{}}, cast : {{m1, m2}}]
  \cup [kind : {Readings("poll", "attach")}, exists : BOOLEAN, shutdown : {{}}, cast : {{m1, m3}}]
Fresh == [kind : {Readings("off", "off")}, exists : {FALSE}, shutdown : {{}}, cast : {{m1, m2, m3}}]
=============================================================================
