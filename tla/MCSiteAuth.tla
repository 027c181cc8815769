----------------------------- MODULE MCSiteAuth -----------------------------
(* Two requests at a time and room for one passkey: codes in two browsers,  *)
(* passkey registration and passkey login in one, with an authenticator     *)
(* that counts its assertions and with one that does not.                   *)
EXTENDS SiteAuth

CONSTANTS b1, a1

MCAudiences ==
    {[browsers |-> Browsers, keys |-> {}, counting |-> {}, routes |-> {"code"}],
     [browsers |-> {b1}, keys |-> {}, counting |-> {}, routes |-> {"code", "logout"}],
     [browsers |-> {b1}, keys |-> Keys, counting |-> {},
      routes |-> {"registerBegin", "registerFinish", "logout"}],
     [browsers |-> {b1}, keys |-> {a1}, counting |-> {},
      routes |-> {"loginBegin", "loginFinish"}],
     [browsers |-> {b1}, keys |-> {a1}, counting |-> {a1},
      routes |-> {"loginBegin", "loginFinish"}]}
=============================================================================
