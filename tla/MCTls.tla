-------------------------------- MODULE MCTls -------------------------------
EXTENDS Tls
Flight == Control("flight")
MCScripts == {<<Flight, Control("ticket"), Data(<<"a", "b">>), Control("close")>>,
              <<Flight, Control("renegotiate"), Flight, Data(<<"a">>), Control("eof")>>,
              <<Flight, Control("update"), Data(<<"a">>), Data(<<"b">>), Control("close")>>}
MCAttempts == {[first |-> <<"inprogress">>, other |-> <<>>], [first |-> <<"refused">>, other |-> <<"connected">>],
               [first |-> <<"refused", "noroute">>, other |-> <<"connected">>]}
=============================================================================
