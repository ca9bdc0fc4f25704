------------------------- MODULE MCProviderRequests -------------------------
EXTENDS ProviderRequests

Channel(kind, thinks) == [kind |-> kind, thinks |-> thinks]

MCChannels ==
    {Channel("anthropic", TRUE), Channel("relay", TRUE), Channel("chat", TRUE),
     Channel("responses", TRUE)}
=============================================================================
