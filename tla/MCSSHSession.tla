---------------------------- MODULE MCSSHSession -----------------------------
(* The methods of this build, the servers, and what happens in the sessions    *)
(* checked.                                                                     *)
EXTENDS SSHSession

MCSupported ==
    [k \in Kinds |-> CASE k = "KEX" -> <<"diffie-hellman-group14-sha1", Gex>>
                       [] k \in {"CRYPT_CS", "CRYPT_SC"} -> <<"aes256-cbc", "aes192-cbc">>
                       [] k \in {"MAC_CS", "MAC_SC"} -> <<"hmac-sha1", "hmac-md5">>
                       [] OTHER -> MethodNames(k)]
\* Servers: one of our mind, one of the opposite, one that has one method of each.
Same == MCSupported
Opposite == [k \in Kinds |-> Reverse(MCSupported[k])]
Compresses == [Same EXCEPT !["COMP_CS"] = <<"zlib">>, !["COMP_SC"] = <<"zlib">>,
                           !["KEX"] = <<Gex>>]
Incompatible == [Same EXCEPT !["MAC_SC"] = <<"hmac-none">>]
OnlyGex == [Same EXCEPT !["KEX"] = <<Gex>>]

Session(does, lists, guess) == [uses |-> does, lists |-> lists, guess |-> guess]
MCSessions ==
    {Session({"list", "password", "banner", "rekey", "read"}, Opposite, FALSE),
     Session({"publickey", "hostbased", "rekey", "disconnect"}, OnlyGex, FALSE),
     Session({"kbdint", "publickey", "rekey"}, Same, FALSE),
     Session({"kbdint", "publickey", "banner"}, Opposite, TRUE),
     Session({"list", "banner", "rekey", "timeout"}, Opposite, TRUE),
     Session({"password", "reset", "closed", "disconnect"}, OnlyGex, TRUE),
     Session({"password", "publickey", "kbdint", "timeout"}, Same, FALSE),
     Session({"pref", "list"}, Opposite, FALSE),
     Session({"list", "password", "reset", "read", "rekey"}, Same, FALSE),
     Session({"list"}, Incompatible, FALSE),
     Session({"list", "hostbased"}, Compresses, FALSE)}
\* Names of one length, the last of them one that this library does not have.
MCPrefs ==
    [kind : {"CRYPT_CS", "CRYPT_SC"},
     list : {<<"aes192-cbc", "aes256-cbc">>, <<"aes256-ctr", "aes256-cbc", "aes192-cbc">>,
             <<"aes256-ctr">>}]
==============================================================================
