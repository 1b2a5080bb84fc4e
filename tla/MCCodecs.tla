------------------------------ MODULE MCCodecs ------------------------------
\* Small integer encodings for Codecs: base 4, of fixed width; and the values of
\* the wire enums up to one that none of them knows.
EXTENDS Codecs

MCWireInts == {-1, 0, 1, 3, 4, 5, 6, 7}
MCByte == 0 .. 3
MCLe32(n) == <<n % 4, n \div 4>>
MCLe64(n) == <<n % 4, (n \div 4) % 4, n \div 16>>
MCBe64(n) == <<n \div 16, (n \div 4) % 4, n % 4>>
MCTag ==
    [name \in TagNames |->
        CASE name = "call v2" -> <<2>> [] name = "call v3" -> <<3>> [] name = "request" -> <<2, 2>>
          [] name = "enroll" -> <<2, 3>> [] name = "commitment" -> <<3, 2>> [] name = "explanation" -> <<3, 3>>
          [] name = "participants" -> <<2, 0>> [] name = "context" -> <<2, 1>> [] name = "record" -> <<3, 0>>
          [] name = "head v1" -> <<3, 1>> [] name = "head v2" -> <<0, 2>> [] name = "pop" -> <<3, 3, 0>>]
=============================================================================
