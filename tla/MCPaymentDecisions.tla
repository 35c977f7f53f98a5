------------------------- MODULE MCPaymentDecisions -------------------------
(* Payments around every limit for TLC, in thousandths.  LargestStored is   *)
(* scaled down to 20000, to stay within TLC's integers.                    *)
EXTENDS PaymentDecisions

\* Each limit and the next cent and thousandth above it, zero and what rounds to it,
\* the failing amount, the least the column can hold, and amounts beyond the column.
MCAmounts ==
    {-20000005, -20000004, 0, 4, 5, 998999, 999000, 1000000, 1000001, 3000000, 3000010,
     5000000, 5000001, 10000000, 10000010, 30000000}

\* Every well-formed payment, and every way one field is not.
MCRequests ==
    {r \in [amount: MCAmounts \cup {NoAmount, NotANumber},
            type: SupportedTypes \cup {"", "OTHER"},
            channel: SupportedChannels \cup {"", "OTHER"},
            issuerType: SupportedIssuers \cup {"", "OTHER"},
            network: SupportedNetworks \cup {"", "OTHER"},
            accounts: {"", "fit"},
            pin: {"", "right"},
            pinVerified: {TRUE},
            cardNumber: {"digits"},
            cardLast4: {""}] : r.accounts = "fit" \/ r.pin = ""}
    \cup
    [amount: {-20000005, 0, 999000, 1000000, 5000001},
     type: SupportedTypes,
     channel: SupportedChannels,
     issuerType: SupportedIssuers,
     network: SupportedNetworks \cup {""},
     accounts: {"fit", "tooLong"},
     pin: {"right", "wrong"},
     pinVerified: BOOLEAN,
     cardNumber: {"", "tooShort", "noDigits", "digits"},
     cardLast4: {"", "sent"}]
=============================================================================
