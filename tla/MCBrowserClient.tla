-------------------------- MODULE MCBrowserClient --------------------------
(* A small instance of BrowserClient.                                      *)
EXTENDS BrowserClient

=============================================================================
