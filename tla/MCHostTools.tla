---------------------------- MODULE MCHostTools ----------------------------
(* Small instances of HostTools for TLC. *)
EXTENDS HostTools

Proper == [s \in Settings |-> Expected(s)]

\* As the README sets it up, merged into a longer chain; a file of the senders left out
\* and nothing for clients; the files of the senders behind another check.
MCWirings ==
    {[s \in Settings |-> Expected(s) \cup {<<"check_client_access", "other_file">>}],
     [Proper EXCEPT !["sender"] = {<<"check_sender_access", "address_file">>},
                    !["client"] = {}],
     [Proper EXCEPT !["sender"] = {<<"check_sender_access", "other_file">>,
                                   <<"check_client_access", "address_file">>,
                                   <<"check_client_access", "domain_file">>}]}

AllOps == MailOps \cup {"service", "health"}

=============================================================================
