---------------------------- MODULE MCInvoicePush ----------------------------
(* InvoicePush with model values for the handlers.                          *)
EXTENDS InvoicePush

CONSTANTS c1, c2
=============================================================================
