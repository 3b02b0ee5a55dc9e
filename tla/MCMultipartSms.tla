--------------------------- MODULE MCMultipartSms ---------------------------
(* Two storages with two places each, one of them taken; a multipart message *)
(* of two parts, a part with the sequence 0 and a single one may arrive, and *)
(* users create messages of two parts.                                       *)
EXTENDS MultipartSms, TLC

MCStorages   == {"SM", "ME"}
MCListOrder  == <<"SM", "ME">>
MCReferences == {1}
MCIncoming   == {[ref |-> 1, seq |-> 0, max |-> 2], [ref |-> 1, seq |-> 1, max |-> 2],
                 [ref |-> 1, seq |-> 2, max |-> 2], [ref |-> 0, seq |-> 0, max |-> 1]}

Holding(parts) == [s \in MCStorages |-> [i \in Slots |->
  IF <<s, i>> \in DOMAIN parts THEN [parts[<<s, i>>] EXCEPT !.origin = MaxInputs + 1] ELSE NoPart]]

(* One single part that was received, and the second part of a message that   *)
(* was stored, which has the reference of what may arrive.                    *)
MCInitialStores ==
  {Holding(<<"SM", 1>> :> [NoPart EXCEPT !.max = 1]
           @@ <<"ME", 1>> :> [NoPart EXCEPT !.ref = 1, !.seq = 2, !.max = 2, !.state = "stored"])}
=============================================================================
