----------------------------- MODULE MCQrScanner -----------------------------
(* Two payment URIs, one of them with parameters the wallet does not know.   *)
EXTENDS QrScanner

CONSTANTS plain, odd, transfer, addressBook

MCCodes == {plain, odd}
MCOdd == {odd}
MCPages == {transfer, addressBook}
=============================================================================
