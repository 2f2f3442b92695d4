SPECIFICATION MailboxSpec
CONSTANTS
    MAILBOX_CAPACITY = 4
    Message = {m1, m2, m3}
PROPERTY ImplementsFifo
