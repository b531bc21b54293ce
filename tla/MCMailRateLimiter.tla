-------------------------- MODULE MCMailRateLimiter --------------------------
EXTENDS MailRateLimiter
MCLengths == <<1, 3, 3>>
MCLimits == <<1, 2, 0>>
=============================================================================
