--------------------------- MODULE MCPacketParser ---------------------------
(* A packet with a content, one whose content is a line end, one without   *)
(* content and one that does not even name the length.                     *)
EXTENDS PacketParser, TLC

Packet(type, named, content) == [type |-> type, named |-> named, content |-> content]
Byte == Sym("byte", 0)

MCPackets == {Packet("SMA", TRUE, <<Byte, Byte>>), Packet("SAV", TRUE, <<CR, LF>>),
              Packet("RDY", TRUE, <<>>), Packet("HBT", FALSE, <<>>)}

(* Packets that name their length, for the run that shows what becomes of  *)
(* a broken line.                                                          *)
MCNamed == {Packet("SMA", TRUE, <<Byte, Byte>>), Packet("RDY", TRUE, <<>>)}
=============================================================================
